---- MODULE Spec2Model ----
(***************************************************************************)
(* Model of the QNX space-launch simulator (src/src/qnx/main_qnx.c), its   *)
(* command service (recv_loop of the IPC server) and its telemetry device  *)
(* (the ring buffer of the resource manager).                              *)
(*                                                                         *)
(* The receiver thread and the simulation (main) thread share the three    *)
(* volatile ints g_mission_go, g_throttle and g_abort_req without a lock,  *)
(* so both threads are modelled one volatile access per step.  The ring    *)
(* buffer is only touched under rmtx, so append and read are atomic.       *)
(*                                                                         *)
(* Physics is kept in fixed point: with dt = 0.1 s the velocity unit is    *)
(* 0.005 m/s and the altitude unit 0.0005 m, which makes every update of   *)
(* step_sim an integer update (floating-point rounding is not modelled).   *)
(*                                                                         *)
(* The second program of the repository, the launch simulation of main.c   *)
(* with its subsystem threads (flight_control.c, engine_control.c), is     *)
(* modelled further down with variables of its own.  Its clock is counted  *)
(* in whole seconds: every boundary of the phase table is a whole second,  *)
(* so one step of its main loop stands for the 100 iterations of 10 ms     *)
(* that make up one second of mission time.                                *)
(***************************************************************************)
EXTENDS Integers, Sequences, FiniteSets, TLC

VARIABLES
    g_mission_go, g_throttle, g_abort_req,   \* shared volatile ints
    g_altitude, g_velocity, g_mission_time,  \* main-thread physics state
    rpc, msg, reply, out,                    \* receiver thread
    spc, tmp,                                \* simulation (main) thread
    abort_steps,                             \* loop iterations since the last Abort
    console,                                 \* operator console: lines read, messages sent
    logger,                                  \* sls_logging.c: the globals and the caller
    clamp_call,                              \* the last call of sls_clamp and its result
    last_reader,                             \* the open of the device that read last
    ring, r_head, r_tail,                    \* telemetry ring buffer
    rd,                                      \* result of the last io_read
    pending,                                 \* a reader is left reply-blocked
    emitted, ring_src, delivered, lost,      \* history of the byte stream
    main_mission_time,                       \* g_mission_time of main.c, seconds
    g_current_phase, last_phase,             \* mission phase of main.c
    g_shutdown_requested, g_system_state,    \* main.c
    engine_state,                            \* g_ecs_state.engines[i].state
    engines,                                 \* the other fields of g_ecs_state.engines[i]
    g_ecs_state,                             \* engine_control.c, the sequence flags
    sequence_timer,                          \* the static timers of the two sequences
    health_found,                            \* what the last health check of each engine found
    g_fc_state,                              \* flight_control.c
    lag,                                     \* main loop periods minus flight control ticks
    thread_pc,                               \* position of every subsystem thread
    main_pc, join_index,                     \* main thread: main and shutdown_system
    last_iteration,                          \* the last iteration of a periodic loop
    warn_count                               \* overrun warnings logged by each loop

cmdVars  == <<g_mission_go, g_throttle, g_abort_req, g_altitude, g_velocity,
              g_mission_time, rpc, msg, reply, out, spc, tmp, abort_steps,
              console, logger, clamp_call, last_reader>>
ringVars == <<ring, r_head, r_tail, rd, pending, emitted, ring_src, delivered,
              lost>>
mainVars == <<main_mission_time, g_current_phase, last_phase,
              g_shutdown_requested, g_system_state>>
fcVars   == <<g_fc_state, lag>>
engineVars == <<engine_state, engines, g_ecs_state, sequence_timer,
                health_found>>
schedVars == <<thread_pc, main_pc, join_index, last_iteration, warn_count>>
flightVars == <<mainVars, engineVars, fcVars, schedVars>>
vars     == <<cmdVars, ringVars, flightVars>>

----------------------------------------------------------------------------
(* Bounds of the model *)

\* number of simulation steps the main loop may take
MaxSteps == 2
\* values a client may put into sim_msg_t.value
ThrottleInputs == {-5, 3, 250}
\* message types that are none of the five command codes
UnknownTypes == {0, 100}
\* size of the ring buffer (RBUF_SZ is 8192 in the source)
RBUF_SZ == 4
\* longest telemetry line, in bytes, newline included
MaxLine == 3
\* total number of bytes the writer appends
MaxEmit == 7
\* largest nbytes of a read
MaxRead == 3
\* number of steps of the simulator loop when every step is taken at once
MaxSimSteps == 5
\* largest magnitude of an argument of sls_clamp
MaxClamp == 3
\* number of lines written to the log file
MaxLogLines == 4
\* number of lines the operator console reads
MaxConsoleLines == 2
\* number of steps of the simulator loop that are followed after an Abort
MaxAbortSteps == 70
\* number of engines the random fault injection puts into Fault in a run
MaxInjected == 1
\* longest body of a loop iteration, in quarters of the period
MaxElapsed == 8
\* number of overrun warnings of a loop that are followed
MaxWarn == 3
\* mission time, in seconds, up to which the main loop of main.c is followed
MaxMissionTime == 690
\* number of periods the main loop and the flight control loop, both of
\* 10 ms period, may run ahead of each other
MaxLag == 1

----------------------------------------------------------------------------
(* Command protocol, src/src/qnx/ipc.h *)

CMD_STATUS       == 1
CMD_GO           == 2
CMD_NOGO         == 3
CMD_ABORT        == 4
CMD_SET_THROTTLE == 5
PULSE_TICK       == 100

CmdTypes == {CMD_STATUS, CMD_GO, CMD_NOGO, CMD_ABORT, CMD_SET_THROTTLE}

\* the clamp of recv_loop: if (v < 0) v = 0; if (v > 100) v = 100;
ClampLow(v) == IF v < 0 THEN 0 ELSE v
Clamp(v) == LET w == ClampLow(v) IN IF w > 100 THEN 100 ELSE w

\* (int)(50 * dt) with dt = 0.1
RampStep == 5
\* gravity per step, in velocity units of 0.005 m/s: 1.0 * dt = 0.1 m/s
GravityStep == 20
\* g_mission_time > 36000 s, in steps of dt
SafetyStopSteps == 360000

NoReply == [ok |-> -1, mission_go |-> -1, throttle |-> -1]

----------------------------------------------------------------------------
(* Receiver thread: recv_loop *)

\* MsgReceive returns a client message (rcvid > 0).  A return of -1 with
\* EINTR repeats the call and changes nothing; the receiver leaves the loop
\* only when ipc_server_stop cancels it.
RecvMessage ==
    /\ rpc = "recv"
    /\ \E t \in CmdTypes \cup UnknownTypes :
       \E v \in (IF t = CMD_SET_THROTTLE THEN ThrottleInputs ELSE {0}) :
            msg' = [rcvid |-> 1, type |-> t, value |-> v]
    /\ out' = NoReply
    /\ rpc' = "init_go"
    /\ UNCHANGED <<g_mission_go, g_throttle, g_abort_req, g_altitude,
                   g_velocity, g_mission_time, reply, spc, tmp>>
    /\ UNCHANGED <<ringVars, flightVars, logger, clamp_call, last_reader, abort_steps, console>>

\* after a pulse: continue
PulseNextBroken == "init_go"
PulseNext == "recv"

\* MsgReceive returns 0: a pulse, which overwrites the message buffer;
\* nothing to reply, continue
RecvPulse ==
    /\ rpc = "recv"
    /\ msg' = [rcvid |-> 0, type |-> PULSE_TICK, value |-> 0]
    /\ rpc' = PulseNext
    /\ UNCHANGED <<g_mission_go, g_throttle, g_abort_req, g_altitude,
                   g_velocity, g_mission_time, reply, out, spc, tmp>>
    /\ UNCHANGED <<ringVars, flightVars, logger, clamp_call, last_reader, abort_steps, console>>

\* sim_reply_t reply = { .ok = 1, .mission_go = *srv->mission_go, ...
RecvInitGo ==
    /\ rpc = "init_go"
    /\ reply' = [ok |-> 1, mission_go |-> g_mission_go, throttle |-> 0]
    /\ rpc' = "init_thr"
    /\ UNCHANGED <<g_mission_go, g_throttle, g_abort_req, g_altitude,
                   g_velocity, g_mission_time, msg, out, spc, tmp>>
    /\ UNCHANGED <<ringVars, flightVars, logger, clamp_call, last_reader, abort_steps, console>>

\* ... .throttle = *srv->throttle };
RecvInitThr ==
    /\ rpc = "init_thr"
    /\ reply' = [reply EXCEPT !.throttle = g_throttle]
    /\ rpc' = "switch"
    /\ UNCHANGED <<g_mission_go, g_throttle, g_abort_req, g_altitude,
                   g_velocity, g_mission_time, msg, out, spc, tmp>>
    /\ UNCHANGED <<ringVars, flightVars, logger, clamp_call, last_reader, abort_steps, console>>

\* reply.ok after the switch: the default branch sets it to 0
SwitchOkBroken(t, ok) == ok
SwitchOk(t, ok) == IF t \in CmdTypes THEN ok ELSE 0

\* g_mission_go after the first store of the selected case
SwitchMissionGo(t, go) ==
    CASE t = CMD_GO   -> 1
      [] t = CMD_NOGO -> 0
      [] OTHER        -> go

\* g_abort_req after the first store of the selected case
SwitchAbortReqBroken(t, a) ==
    IF t = CMD_ABORT THEN 1 ELSE IF t = CMD_NOGO THEN 0 ELSE a
SwitchAbortReq(t, a) == IF t = CMD_ABORT THEN 1 ELSE a

\* g_throttle after the first store of the selected case
SwitchThrottle(t, v, thr) == IF t = CMD_SET_THROTTLE THEN Clamp(v) ELSE thr

\* where the selected case continues
SwitchNext(t) ==
    CASE t = CMD_GO    -> "go2"
      [] t = CMD_ABORT -> "abort2"
      [] OTHER         -> "post_go"

\* switch (msg.type): the first store of the selected case
RecvSwitch ==
    /\ rpc = "switch"
    /\ g_mission_go' = SwitchMissionGo(msg.type, g_mission_go)
    /\ g_abort_req' = SwitchAbortReq(msg.type, g_abort_req)
    /\ g_throttle' = SwitchThrottle(msg.type, msg.value, g_throttle)
    /\ reply' = [reply EXCEPT !.ok = SwitchOk(msg.type, reply.ok)]
    /\ rpc' = SwitchNext(msg.type)
    /\ UNCHANGED <<g_altitude, g_velocity, g_mission_time, msg, out, spc, tmp>>
    /\ UNCHANGED <<ringVars, flightVars, logger, clamp_call, last_reader, abort_steps, console>>

\* case CMD_GO, second store: *srv->abort_req = 0
RecvGo2 ==
    /\ rpc = "go2"
    /\ g_abort_req' = 0
    /\ rpc' = "post_go"
    /\ UNCHANGED <<g_mission_go, g_throttle, g_altitude, g_velocity,
                   g_mission_time, msg, reply, out, spc, tmp>>
    /\ UNCHANGED <<ringVars, flightVars, logger, clamp_call, last_reader, abort_steps, console>>

\* case CMD_ABORT, second store: *srv->mission_go = 0
RecvAbort2 ==
    /\ rpc = "abort2"
    /\ g_mission_go' = 0
    /\ rpc' = "post_go"
    /\ UNCHANGED <<g_throttle, g_abort_req, g_altitude, g_velocity,
                   g_mission_time, msg, reply, out, spc, tmp>>
    /\ UNCHANGED <<ringVars, flightVars, logger, clamp_call, last_reader, abort_steps, console>>

\* reply.mission_go = *srv->mission_go  (after handling)
RecvPostGo ==
    /\ rpc = "post_go"
    /\ reply' = [reply EXCEPT !.mission_go = g_mission_go]
    /\ rpc' = "post_thr"
    /\ UNCHANGED <<g_mission_go, g_throttle, g_abort_req, g_altitude,
                   g_velocity, g_mission_time, msg, out, spc, tmp>>
    /\ UNCHANGED <<ringVars, flightVars, logger, clamp_call, last_reader, abort_steps, console>>

\* reply.throttle = *srv->throttle  (after handling)
RecvPostThr ==
    /\ rpc = "post_thr"
    /\ reply' = [reply EXCEPT !.throttle = g_throttle]
    /\ rpc' = "reply"
    /\ UNCHANGED <<g_mission_go, g_throttle, g_abort_req, g_altitude,
                   g_velocity, g_mission_time, msg, out, spc, tmp>>
    /\ UNCHANGED <<ringVars, flightVars, logger, clamp_call, last_reader, abort_steps, console>>

\* MsgReply(rcvid, EOK, &reply, sizeof(reply))
RecvReply ==
    /\ rpc = "reply"
    /\ out' = reply
    /\ rpc' = "recv"
    /\ UNCHANGED <<g_mission_go, g_throttle, g_abort_req, g_altitude,
                   g_velocity, g_mission_time, msg, reply, spc, tmp>>
    /\ UNCHANGED <<ringVars, flightVars, logger, clamp_call, last_reader, abort_steps, console>>

\* the steps of recv_loop between MsgReceive and MsgReply: none of them blocks
RecvHandle ==
    \/ RecvInitGo \/ RecvInitThr \/ RecvSwitch \/ RecvGo2 \/ RecvAbort2
    \/ RecvPostGo \/ RecvPostThr \/ RecvReply

recv_loop == RecvMessage \/ RecvPulse \/ RecvHandle

----------------------------------------------------------------------------
(* Simulation thread: the loop of main() and step_sim *)

\* the thrust branch of step_sim: g_velocity += 5.0 * thrust_factor * dt
ThrustVelocity(vel, thr) == vel + thr
\* the gravity branch of step_sim: velocity and altitude after the step
GravityVelocity(vel, alt) ==
    IF vel - GravityStep < 0 /\ alt <= 0 THEN 0 ELSE vel - GravityStep
GravityAltitude(vel, alt) ==
    IF vel - GravityStep < 0 /\ alt <= 0 THEN 0
    ELSE IF alt + (vel - GravityStep) < 0 THEN 0 ELSE alt + (vel - GravityStep)

\* after step_sim: append_telem_line, the safety stop, nanosleep
AfterStep(t) == IF t > SafetyStopSteps THEN "exit" ELSE "loop"

simFrame == /\ UNCHANGED <<rpc, msg, reply, out>>
            /\ UNCHANGED <<ringVars, flightVars, logger, clamp_call, last_reader, abort_steps, console>>

\* while (!g_abort_req || g_altitude > 0.0 || g_velocity > 0.0)
SimLoop ==
    /\ spc = "loop"
    /\ g_mission_time < MaxSteps
    /\ spc' = IF g_abort_req = 0 \/ g_altitude > 0 \/ g_velocity > 0
              THEN "s_abort" ELSE "exit"
    /\ UNCHANGED <<g_mission_go, g_throttle, g_abort_req, g_altitude,
                   g_velocity, g_mission_time, tmp>>
    /\ simFrame

\* if (g_abort_req) {
SimAbortTest ==
    /\ spc = "s_abort"
    /\ spc' = IF g_abort_req # 0 THEN "s_thr_gt" ELSE "p_go"
    /\ UNCHANGED <<g_mission_go, g_throttle, g_abort_req, g_altitude,
                   g_velocity, g_mission_time, tmp>>
    /\ simFrame

\* if (g_throttle > 0) ...
SimThrGt ==
    /\ spc = "s_thr_gt"
    /\ spc' = IF g_throttle > 0 THEN "s_thr_rd" ELSE "s_thr_lt"
    /\ UNCHANGED <<g_mission_go, g_throttle, g_abort_req, g_altitude,
                   g_velocity, g_mission_time, tmp>>
    /\ simFrame

\* g_throttle -= (int)(50 * dt): the load
SimThrRd ==
    /\ spc = "s_thr_rd"
    /\ tmp' = g_throttle
    /\ spc' = "s_thr_wr"
    /\ UNCHANGED <<g_mission_go, g_throttle, g_abort_req, g_altitude,
                   g_velocity, g_mission_time>>
    /\ simFrame

\* g_throttle -= (int)(50 * dt): the store
SimThrWr ==
    /\ spc = "s_thr_wr"
    /\ g_throttle' = tmp - RampStep
    /\ tmp' = 0
    /\ spc' = "s_thr_lt"
    /\ UNCHANGED <<g_mission_go, g_abort_req, g_altitude, g_velocity,
                   g_mission_time>>
    /\ simFrame

\* if (g_throttle < 0) ...
SimThrLt ==
    /\ spc = "s_thr_lt"
    /\ spc' = IF g_throttle < 0 THEN "s_thr_zero" ELSE "s_go_wr"
    /\ UNCHANGED <<g_mission_go, g_throttle, g_abort_req, g_altitude,
                   g_velocity, g_mission_time, tmp>>
    /\ simFrame

\* ... g_throttle = 0
SimThrZero ==
    /\ spc = "s_thr_zero"
    /\ g_throttle' = 0
    /\ spc' = "s_go_wr"
    /\ UNCHANGED <<g_mission_go, g_abort_req, g_altitude, g_velocity,
                   g_mission_time, tmp>>
    /\ simFrame

\* g_mission_go = 0
SimGoWr ==
    /\ spc = "s_go_wr"
    /\ g_mission_go' = 0
    /\ spc' = "p_go"
    /\ UNCHANGED <<g_throttle, g_abort_req, g_altitude, g_velocity,
                   g_mission_time, tmp>>
    /\ simFrame

\* the gravity branch, g_mission_time += dt, and the rest of the loop body
SimGravity ==
    /\ g_velocity' = GravityVelocity(g_velocity, g_altitude)
    /\ g_altitude' = GravityAltitude(g_velocity, g_altitude)
    /\ g_mission_time' = g_mission_time + 1
    /\ spc' = AfterStep(g_mission_time + 1)

\* if (g_mission_go && ...
SimPhysGo ==
    /\ spc = "p_go"
    /\ IF g_mission_go # 0
       THEN /\ spc' = "p_thr"
            /\ UNCHANGED <<g_altitude, g_velocity, g_mission_time>>
       ELSE SimGravity
    /\ UNCHANGED <<g_mission_go, g_throttle, g_abort_req, tmp>>
    /\ simFrame

\* ... && g_throttle > 0)
SimPhysThr ==
    /\ spc = "p_thr"
    /\ IF g_throttle > 0
       THEN /\ spc' = "p_factor"
            /\ UNCHANGED <<g_altitude, g_velocity, g_mission_time>>
       ELSE SimGravity
    /\ UNCHANGED <<g_mission_go, g_throttle, g_abort_req, tmp>>
    /\ simFrame

\* thrust_factor = g_throttle / 100.0 and the thrust branch
SimPhysThrust ==
    /\ spc = "p_factor"
    /\ g_velocity' = ThrustVelocity(g_velocity, g_throttle)
    /\ g_altitude' = g_altitude + ThrustVelocity(g_velocity, g_throttle)
    /\ g_mission_time' = g_mission_time + 1
    /\ spc' = AfterStep(g_mission_time + 1)
    /\ UNCHANGED <<g_mission_go, g_throttle, g_abort_req, tmp>>
    /\ simFrame

\* ipc_server_stop: the receiver is cancelled in MsgReceive and joined
ipc_server_stop ==
    /\ spc = "exit"
    /\ rpc = "recv"
    /\ spc' = "stopped"
    /\ rpc' = "cancelled"
    /\ UNCHANGED <<g_mission_go, g_throttle, g_abort_req, g_altitude,
                   g_velocity, g_mission_time, msg, reply, out, tmp>>
    /\ UNCHANGED <<ringVars, flightVars, logger, clamp_call, last_reader, abort_steps, console>>

step_sim ==
    \/ SimAbortTest \/ SimThrGt \/ SimThrRd \/ SimThrWr \/ SimThrLt
    \/ SimThrZero \/ SimGoWr \/ SimPhysGo \/ SimPhysThr \/ SimPhysThrust

----------------------------------------------------------------------------
(* Telemetry device: the ring buffer of the resource manager.  Every access *)
(* to ring, r_head and r_tail is made under rmtx, so rmgr_telemetry_append  *)
(* and io_read are atomic.  emitted, ring_src, delivered and lost are       *)
(* history variables: the byte stream the writer produced, the stream       *)
(* offset of the byte held by each cell, the stream offsets of the bytes    *)
(* the reads copied out, and the number of unread bytes dropped.            *)

NUL == 0
LF  == 10
CH  == 120

Cells == 0 .. (RBUF_SZ - 1)

\* a telemetry line of n bytes: n - 1 characters and the newline snprintf ends it with
Line(n) == [i \in 1..n |-> IF i = n THEN LF ELSE CH]
Lines == {Line(n) : n \in 1..MaxLine}

\* r_head = (r_head + 1) % RBUF_SZ
NextHead(h) == (h + 1) % RBUF_SZ

\* if (r_head == r_tail) r_tail = (r_tail + 1) % RBUF_SZ;  -- overwrite oldest
DropOldestBroken(h, t) == t
DropOldest(h, t) == IF h = t THEN (t + 1) % RBUF_SZ ELSE t

\* the loop body of rmgr_telemetry_append for byte i of line
RECURSIVE AppendFrom(_, _, _)
AppendFrom(st, line, i) ==
    IF i > Len(line) THEN st
    ELSE LET h1 == NextHead(st.head)
             t1 == DropOldest(h1, st.tail)
         IN AppendFrom([ring |-> [st.ring EXCEPT ![st.head] = line[i]],
                        src  |-> [st.src EXCEPT ![st.head] = st.off + 1],
                        head |-> h1,
                        tail |-> t1,
                        off  |-> st.off + 1,
                        lost |-> st.lost + (IF t1 # st.tail THEN 1 ELSE 0)],
                       line, i + 1)

\* rmgr_telemetry_append(line), called by append_telem_line once per step
rmgr_telemetry_append ==
    \E line \in Lines :
        /\ Len(emitted) + Len(line) <= MaxEmit
        /\ LET st == AppendFrom([ring |-> ring, src |-> ring_src,
                                 head |-> r_head, tail |-> r_tail,
                                 off |-> Len(emitted), lost |-> lost],
                                line, 1)
           IN /\ ring' = st.ring
              /\ ring_src' = st.src
              /\ r_head' = st.head
              /\ r_tail' = st.tail
              /\ lost' = st.lost
        /\ emitted' = emitted \o line
        /\ UNCHANGED <<rd, pending, delivered>>
        /\ UNCHANGED <<cmdVars, flightVars>>

\* size_t available = (r_head >= r_tail) ? ... : ...
Available(h, t) == IF h >= t THEN h - t ELSE RBUF_SZ - (t - h)

\* size_t to_copy = (available < nbytes) ? available : nbytes
ToCopy(avail, n) == IF avail < n THEN avail ELSE n

\* size_t end = (r_tail + to_copy <= RBUF_SZ) ? (r_tail + to_copy) : RBUF_SZ
ReadEndBroken(t, c) == t + c
ReadEnd(t, c) == IF t + c <= RBUF_SZ THEN t + c ELSE RBUF_SZ

\* r_tail = (r_tail + n1) % RBUF_SZ
NewTailBroken(t, n1) == t
NewTail(t, n1) == (t + n1) % RBUF_SZ

\* if (nonblock) return _RESMGR_ERR(EAGAIN); return _RESMGR_NOREPLY;
EmptyStatus(nonblock) == IF nonblock THEN "EAGAIN" ELSE "NOREPLY"

NoRead == [status |-> "NONE", nbytes |-> 0, nonblock |-> FALSE, xtype |-> 0,
           avail |-> 0, tail |-> 0, n1 |-> 0, src |-> <<>>]

\* io_read: a read of nbytes bytes on an OCB opened with or without O_NONBLOCK.
\* rd.src names the bytes the memcpy puts into the reply buffer.  A blocking
\* read of an empty ring returns _RESMGR_NOREPLY and leaves the client waiting.
IoRead(n, nonblock, xtype) ==
        LET avail == Available(r_head, r_tail)
            n1    == ReadEnd(r_tail, ToCopy(avail, n)) - r_tail
            req   == [NoRead EXCEPT !.nbytes = n, !.nonblock = nonblock,
                                    !.xtype = xtype,
                                    !.avail = avail, !.tail = r_tail]
        IN /\ IF xtype # 0 \/ n <= 0
              THEN /\ rd' = [req EXCEPT !.status = "EINVAL"]
                   /\ UNCHANGED <<r_tail, delivered, pending>>
              ELSE IF avail = 0
              THEN /\ rd' = [req EXCEPT !.status = EmptyStatus(nonblock)]
                   /\ pending' = (pending \/ EmptyStatus(nonblock) = "NOREPLY")
                   /\ UNCHANGED <<r_tail, delivered>>
              ELSE LET src == [i \in 1..n1 |-> ring_src[(r_tail + i - 1) % RBUF_SZ]]
                   IN /\ rd' = [req EXCEPT !.status = "OK", !.n1 = n1, !.src = src]
                      /\ delivered' = delivered \o src
                      /\ r_tail' = NewTail(r_tail, n1)
                      /\ UNCHANGED pending
           /\ UNCHANGED <<ring, r_head, emitted, ring_src, lost>>

io_read ==
    \E n \in 0..MaxRead, nonblock \in BOOLEAN, xtype \in {0, 1} :
        /\ IoRead(n, nonblock, xtype)
        /\ UNCHANGED <<cmdVars, flightVars>>

\* the opens of /dev/sls_telemetry: one OCB each, all served by io_read
\* with the one static r_tail
Readers == {1, 2}

\* a read of 1..MaxRead bytes through the OCB of a reader
io_read_by ==
    \E reader \in Readers, n \in 1..MaxRead, nonblock \in BOOLEAN :
        /\ IoRead(n, nonblock, 0)
        /\ last_reader' = reader
        /\ UNCHANGED <<g_mission_go, g_throttle, g_abort_req, g_altitude,
                       g_velocity, g_mission_time, rpc, msg, reply, out, spc,
                       tmp, abort_steps, console, logger, clamp_call>>
        /\ UNCHANGED flightVars

----------------------------------------------------------------------------
(* The simulator loop of main_qnx.c with whole steps: a command is handled *)
(* between two iterations of the loop, and an iteration is one step.  These *)
(* are the runs of the program in which no access of the two threads       *)
(* falls inside a step of the other.                                       *)

shared_ints == <<g_mission_go, g_abort_req, g_throttle>>

\* the stores of the selected case of recv_loop's switch, all of them
CommandMissionGo(t, go) ==
    CASE t = CMD_GO    -> 1
      [] t = CMD_NOGO  -> 0
      [] t = CMD_ABORT -> 0
      [] OTHER         -> go
CommandAbortReq(t, a) ==
    CASE t = CMD_GO    -> 0
      [] t = CMD_ABORT -> 1
      [] OTHER         -> a

\* history: an Abort command starts the count of loop iterations; a later
\* Go or Throttle command ends it
NoAbort == 0 - 1
AbortStepsAfter(t, n) ==
    CASE t = CMD_ABORT -> 0
      [] t \in {CMD_GO, CMD_SET_THROTTLE} -> NoAbort
      [] OTHER -> n

\* recv_loop handles one command message of type t and value v
sim_command ==
    \E t \in CmdTypes \ {CMD_STATUS}, v \in ThrottleInputs :
        /\ spc = "loop" /\ rpc = "recv"
        /\ g_mission_go' = CommandMissionGo(t, g_mission_go)
        /\ g_abort_req' = CommandAbortReq(t, g_abort_req)
        /\ g_throttle' = SwitchThrottle(t, v, g_throttle)
        /\ <<g_mission_go', g_abort_req', g_throttle'>> # shared_ints
        /\ abort_steps' = AbortStepsAfter(t, abort_steps)
        /\ UNCHANGED <<g_altitude, g_velocity, g_mission_time,
                       rpc, msg, reply, out, spc, tmp>>
        /\ UNCHANGED <<ringVars, flightVars, logger, clamp_call, last_reader, console>>

\* the abort branch of step_sim: the throttle ramps down, not below 0
AbortThrottle(thr) ==
    LET ramped == IF thr > 0 THEN thr - RampStep ELSE thr
    IN IF ramped < 0 THEN 0 ELSE ramped

\* while (!g_abort_req || g_altitude > 0.0 || g_velocity > 0.0)
LoopTest == g_abort_req = 0 \/ g_altitude > 0 \/ g_velocity > 0

\* one iteration of the loop of main: the loop test, step_sim(dt), the
\* telemetry line and the safety stop
sim_iteration ==
    LET thr == IF g_abort_req # 0 THEN AbortThrottle(g_throttle) ELSE g_throttle
        go  == IF g_abort_req # 0 THEN 0 ELSE g_mission_go
    IN /\ spc = "loop" /\ rpc = "recv"
       /\ g_mission_time < MaxSimSteps
             \/ (abort_steps # NoAbort /\ abort_steps < MaxAbortSteps)
       /\ LoopTest
       /\ g_throttle' = thr
       /\ g_mission_go' = go
       /\ IF go # 0 /\ thr > 0
          THEN /\ g_velocity' = ThrustVelocity(g_velocity, thr)
               /\ g_altitude' = g_altitude + ThrustVelocity(g_velocity, thr)
          ELSE /\ g_velocity' = GravityVelocity(g_velocity, g_altitude)
               /\ g_altitude' = GravityAltitude(g_velocity, g_altitude)
       /\ g_mission_time' = g_mission_time + 1
       /\ spc' = AfterStep(g_mission_time + 1)
       /\ abort_steps' = IF abort_steps = NoAbort THEN NoAbort ELSE abort_steps + 1
       /\ UNCHANGED <<g_abort_req, rpc, msg, reply, out, tmp>>
       /\ UNCHANGED <<ringVars, flightVars, logger, clamp_call, last_reader, console>>

\* the loop test fails: main leaves the loop, stops the command server
\* (the receiver is cancelled and joined) and the telemetry device, and
\* returns
sim_exit ==
    /\ spc = "loop" /\ rpc = "recv"
    /\ ~LoopTest
    /\ spc' = "stopped"
    /\ rpc' = "cancelled"
    /\ UNCHANGED <<g_mission_go, g_throttle, g_abort_req, g_altitude,
                   g_velocity, g_mission_time, msg, reply, out, tmp,
                   abort_steps>>
    /\ UNCHANGED <<ringVars, flightVars, logger, clamp_call, last_reader, console>>

----------------------------------------------------------------------------
(* Launch simulation: main.c, sls_config.h, sls_types.h *)

\* mission_phase_t
PHASE_PRELAUNCH        == 0
PHASE_IGNITION         == 1
PHASE_LIFTOFF          == 2
PHASE_ASCENT           == 3
PHASE_STAGE_SEPARATION == 4
PHASE_ORBIT_INSERTION  == 5
PHASE_MISSION_COMPLETE == 6
PHASE_ABORT            == 7
PHASE_UNKNOWN          == 8

\* static double g_mission_time = -7200.0
MissionStart == 0 - 7200

T_MINUS_ENGINE_START == 0 - 6
T_ZERO_LIFTOFF       == 0
T_PLUS_ORBIT_INSERT  == 480

NUM_ENGINES == 4
Engines == 1..NUM_ENGINES

\* {phase, start_time, duration} of DEFAULT_MISSION_PHASES, in table order
DEFAULT_MISSION_PHASES ==
    << [phase |-> PHASE_PRELAUNCH,        start_time |-> 0 - 7200, duration |-> 7200],
       [phase |-> PHASE_IGNITION,         start_time |-> 0 - 6,    duration |-> 6],
       [phase |-> PHASE_LIFTOFF,          start_time |-> 0,        duration |-> 10],
       [phase |-> PHASE_ASCENT,           start_time |-> 10,       duration |-> 110],
       [phase |-> PHASE_STAGE_SEPARATION, start_time |-> 120,      duration |-> 5],
       [phase |-> PHASE_ORBIT_INSERTION,  start_time |-> 125,      duration |-> 355],
       [phase |-> PHASE_MISSION_COMPLETE, start_time |-> 480,      duration |-> 0] >>

\* g_mission_time >= phases[i].start_time &&
\* g_mission_time < (phases[i].start_time + phases[i].duration)
InPhaseWindow(mt, i) ==
    /\ mt >= DEFAULT_MISSION_PHASES[i].start_time
    /\ mt < DEFAULT_MISSION_PHASES[i].start_time + DEFAULT_MISSION_PHASES[i].duration

\* mission_phase_t new_phase = g_current_phase;  -- kept when no entry matches
NoMatchPhaseBroken(cur) == PHASE_PRELAUNCH
NoMatchPhase(cur) == cur

\* the for loop of update_mission_phase: the first entry whose window holds mt
NewPhase(mt, cur) ==
    LET hits == {i \in 1..Len(DEFAULT_MISSION_PHASES) : InPhaseWindow(mt, i)}
    IN IF hits = {} THEN NoMatchPhase(cur)
       ELSE DEFAULT_MISSION_PHASES[CHOOSE i \in hits : \A j \in hits : i <= j].phase

\* update_mission_phase at mission time mt
update_mission_phase(mt) ==
    LET new_phase == NewPhase(mt, g_current_phase)
    IN IF new_phase # last_phase
       THEN g_current_phase' = new_phase /\ last_phase' = new_phase
       ELSE UNCHANGED <<g_current_phase, last_phase>>

\* the body of the while loop of main_control_loop, for one second of
\* mission time
MainLoopBody ==
    /\ ~g_shutdown_requested
    /\ main_mission_time < MaxMissionTime
    /\ main_mission_time' = main_mission_time + 1
    /\ update_mission_phase(main_mission_time + 1)
    /\ g_system_state' = IF g_current_phase' = PHASE_ABORT
                         THEN "STATE_EMERGENCY" ELSE g_system_state
    /\ UNCHANGED g_shutdown_requested

main_control_loop ==
    /\ MainLoopBody
    /\ UNCHANGED <<cmdVars, ringVars, engineVars, fcVars, schedVars>>

\* the same loop, run next to the flight control thread
main_control_loop_fc ==
    /\ lag < MaxLag
    /\ MainLoopBody
    /\ lag' = lag + 1
    /\ UNCHANGED <<cmdVars, ringVars, engineVars, g_fc_state, schedVars>>

\* SIGINT or SIGTERM
signal_handler ==
    /\ ~g_shutdown_requested
    /\ g_shutdown_requested' = TRUE
    /\ UNCHANGED <<main_mission_time, g_current_phase, last_phase, g_system_state>>
    /\ UNCHANGED <<cmdVars, ringVars, engineVars, fcVars, schedVars>>

----------------------------------------------------------------------------
(* Flight control thread, flight_control.c.  A tick is modelled with       *)
(* dt = 1 s, the largest dt update_vehicle_dynamics accepts.  Quantities   *)
(* are integers: mass in kg, thrust in N, acceleration in cm/s^2, velocity *)
(* in cm/s, position and altitude in cm, fuel_remaining in units of        *)
(* 1/15000 percent (which makes the fuel formula exact); the quotient      *)
(* thrust / mass is truncated to whole cm/s^2.  What the PID autopilot and *)
(* the drag model add to an acceleration is not computed: a component they *)
(* have touched is the value Unknown,      and so is everything integrated  *)
(* from it.                                                                *)

Exact(n) == [known |-> TRUE, v |-> n]
Unknown  == [known |-> FALSE, v |-> 0]

\* x + y
Plus(x, y) == IF x.known /\ y.known THEN Exact(x.v + y.v) ELSE Unknown
\* x * dt
TimesDt(x, dt) == IF x.known THEN Exact(x.v * dt) ELSE Unknown

Axes == 1..3
\* index 2 of the source's arrays: the vertical axis
Z == 3
Zero3 == [i \in Axes |-> Exact(0)]

VEHICLE_DRY_MASS_KG  == 500000
VEHICLE_FUEL_MASS_KG == 1500000
VEHICLE_MAX_THRUST_N == 7500000
\* 9.81 m/s^2 in cm/s^2
Gravity == 981
\* double fuel_flow_rate = 1000.0, kg/s
FuelFlowRate == 1000
\* units of fuel_remaining per percent
FuelScale == VEHICLE_FUEL_MASS_KG \div 100
Percent(p) == p * FuelScale
\* 100 km in cm
DragCeiling == 100000 * 100

\* dt of a tick, in seconds, as measured by sls_time_diff
DtInputs == {1}

\* double sls_clamp(double value, double min_val, double max_val)
sls_clampBroken(value, min_val, max_val) == value
sls_clampLowOnly(value, min_val, max_val) ==
    IF value < min_val THEN min_val ELSE value
sls_clamp(value, min_val, max_val) ==
    IF value < min_val THEN min_val
    ELSE IF value > max_val THEN max_val
    ELSE value

\* g_fc_state.current_phase >= PHASE_LIFTOFF &&
\* g_fc_state.current_phase <= PHASE_ORBIT_INSERTION
InFlightBroken(phase) == phase <= PHASE_ORBIT_INSERTION
InFlight(phase) == phase >= PHASE_LIFTOFF /\ phase <= PHASE_ORBIT_INSERTION

\* thrust_percentage: 100, throttled down to 75 during atmospheric ascent
ThrustPercentage(phase) == IF phase = PHASE_ASCENT THEN 75 ELSE 100

\* ((vs->mass - VEHICLE_DRY_MASS_KG) / VEHICLE_FUEL_MASS_KG) * 100.0, clamped
FuelRemaining(mass) == sls_clamp(mass - VEHICLE_DRY_MASS_KG, Percent(0), Percent(100))

\* the ground support branches: acceleration and velocity zeroed, vehicle
\* kept at ground level
GroundHold(vs, thrust) ==
    [vs EXCEPT !.thrust = thrust,
               !.acceleration = Zero3,
               !.velocity = Zero3,
               !.position[Z] = Exact(0),
               !.altitude = Exact(0)]

\* update_vehicle_dynamics(dt) in phase phase
\* thrust / g_fc_state.vehicle_state.mass, in cm/s^2; the quotient of the
\* doubles is infinite when the mass is 0
ThrustAcceleration(thrust, mass) ==
    IF mass > 0 THEN Exact((thrust * 100) \div mass)
    ELSE IF mass < 0 THEN Exact(0 - ((thrust * 100) \div (0 - mass)))
    ELSE Unknown

update_vehicle_dynamics(vs, phase, dt) ==
    IF dt <= 0 \/ dt > 1 THEN vs
    ELSE LET forces ==
                 IF InFlight(phase)
                 THEN LET thrust == (VEHICLE_MAX_THRUST_N * ThrustPercentage(phase)) \div 100
                          thrust_accel == ThrustAcceleration(thrust, vs.mass)
                          mass == vs.mass - FuelFlowRate * dt
                      IN [vs EXCEPT !.thrust = thrust,
                                    !.acceleration[Z] = Plus(thrust_accel, Exact(0 - Gravity)),
                                    !.mass = mass,
                                    !.fuel_remaining = FuelRemaining(mass)]
                 ELSE IF phase = PHASE_IGNITION
                 THEN GroundHold(vs, VEHICLE_MAX_THRUST_N \div 2)
                 ELSE GroundHold(vs, 0)
             velocity == [i \in Axes |->
                            Plus(forces.velocity[i], TimesDt(forces.acceleration[i], dt))]
             position == [i \in Axes |->
                            Plus(forces.position[i], TimesDt(velocity[i], dt))]
         IN [forces EXCEPT !.mission_time = vs.mission_time + dt,
                           !.velocity = velocity,
                           !.position = position,
                           !.altitude = position[Z]]

\* g_fc_state.vehicle_state.mass *= 0.3
SeparatedMassBroken(mass) == mass
SeparatedMass(mass) == (mass * 3) \div 10

\* handle_mission_phase_change(new_phase); it returns at once when new_phase
\* is g_fc_state.current_phase
handle_mission_phase_change(fc, new_phase) ==
    LET changed == [fc EXCEPT !.current_phase = new_phase]
    IN IF new_phase = fc.current_phase
       THEN fc
       ELSE IF new_phase = PHASE_LIFTOFF
       THEN [changed EXCEPT !.guidance_active = TRUE]
       ELSE IF new_phase = PHASE_STAGE_SEPARATION
       THEN [changed EXCEPT !.vehicle_state.mass = SeparatedMass(@)]
       ELSE IF new_phase = PHASE_ABORT
       THEN [changed EXCEPT !.autopilot_enabled = FALSE, !.guidance_active = FALSE]
       ELSE changed

\* sls_get_current_mission_phase(): the phase of the main program
sls_get_current_mission_phase == g_current_phase

\* process_status_updates
process_status_updates(fc) ==
    IF sls_get_current_mission_phase # fc.current_phase
    THEN handle_mission_phase_change(fc, sls_get_current_mission_phase)
    ELSE fc

\* calculate_guidance_commands, run in Liftoff .. OrbitInsertion
calculate_guidance_commands(fc) == [fc EXCEPT !.guidance_active = TRUE]

\* update_autopilot: a PID output is added to the acceleration of every axis
update_autopilot(fc) ==
    IF ~fc.guidance_active THEN fc
    ELSE [fc EXCEPT !.vehicle_state.acceleration = [i \in Axes |-> Unknown]]

\* simulate_atmospheric_effects: below 100 km a moving vehicle gets a drag
\* acceleration opposite to its velocity, which is zero on an axis without
\* velocity
simulate_atmospheric_effects(fc) ==
    LET vs == fc.vehicle_state
    IN IF vs.altitude.known /\ vs.altitude.v >= DragCeiling THEN fc
       ELSE [fc EXCEPT !.vehicle_state.acceleration =
                [i \in Axes |-> IF vs.velocity[i] = Exact(0)
                                THEN vs.acceleration[i] ELSE Unknown]]

\* one iteration of the loop of flight_control_thread
flight_control_thread ==
    \E dt \in DtInputs :
        LET polled   == process_status_updates(g_fc_state)
            moved    == [polled EXCEPT !.vehicle_state =
                            update_vehicle_dynamics(@, polled.current_phase, dt)]
            guided   == IF InFlight(moved.current_phase)
                        THEN calculate_guidance_commands(moved) ELSE moved
            piloted  == IF guided.autopilot_enabled
                        THEN update_autopilot(guided) ELSE guided
        IN /\ lag > 0 - MaxLag
           /\ g_fc_state' = simulate_atmospheric_effects(piloted)
           /\ lag' = lag - 1
           /\ UNCHANGED <<cmdVars, ringVars, mainVars, engineVars, schedVars>>

\* the Abort command of the command service: *abort_req = 1; *mission_go = 0
CommandAbort ==
    /\ g_abort_req = 0
    /\ g_abort_req' = 1
    /\ g_mission_go' = 0
    /\ UNCHANGED <<g_throttle, g_altitude, g_velocity, g_mission_time,
                   rpc, msg, reply, out, spc, tmp>>
    /\ UNCHANGED <<ringVars, flightVars, logger, clamp_call, last_reader, abort_steps, console>>

----------------------------------------------------------------------------
(* Engine control thread, engine_control.c.  A tick is one iteration of    *)
(* the loop of engine_control_thread at its nominal rate of 50 Hz, so dt   *)
(* is 0.02 s and every timer is counted in ticks.  The timers of the code  *)
(* are doubles that accumulate dt, and the sum of n terms 0.02 is not n    *)
(* times 0.02: the sum of 50 terms is 1.0000000000000004, of 100 terms     *)
(* 2.0000000000000013, of 150 terms 3.000000000000002 and of 200 terms     *)
(* 4.000000000000003.  The comparisons below are the comparisons of these  *)
(* sums.  Thrust is counted in tenths of a percent, flow in tenths of a    *)
(* kg/s, pressure in Pa, speed in RPM and temperature in K.                *)
(*                                                                         *)
(* Nothing in the program sets ignition_sequence_active or                 *)
(* shutdown_sequence_active: the two flags are inputs of the subsystem,    *)
(* raised by start_ignition_sequence and start_shutdown_sequence.          *)

ENGINE_STATE_OFFLINE  == "OFFLINE"
ENGINE_STATE_PRESTART == "PRESTART"
ENGINE_STATE_IGNITION == "IGNITION"
ENGINE_STATE_RUNNING  == "RUNNING"
ENGINE_STATE_SHUTDOWN == "SHUTDOWN"
ENGINE_STATE_FAULT    == "FAULT"

\* update_rate_hz of the Engine Control System: ticks in a second
TicksPerSecond == 50
\* tenths of a percent in a percent
ThrustScale == 10
VEHICLE_MIN_THROTTLE == 60
ENGINE_SHUTDOWN_TIME_S == 2
ENGINE_MAX_CHAMBER_PRESSURE == 20000000
\* 101325.0, atmospheric pressure
Atmospheric == 101325
\* the limits of monitor_engine_health
MinChamberPressure == 1000000
MinTurbopumpSpeed == 8000
MaxNozzleTemperature == 3000

\* sequence_timer < secs, for a timer that has accumulated n ticks
SequenceTimeBelow(n, secs) == n < secs * TicksPerSecond

\* engine->ignition_time > 1.0 after n ticks: the sum of 50 terms 0.02 is
\* 1.0000000000000004
IgnitionDelayOverBroken(n) == n > TicksPerSecond
IgnitionDelayOver(n) == n >= TicksPerSecond

\* engine->shutdown_time > ENGINE_SHUTDOWN_TIME_S after n ticks
ShutdownDelayOver(n) == n >= ENGINE_SHUTDOWN_TIME_S * TicksPerSecond

\* a timer of an engine is followed up to the threshold it is compared with
CountTick(n, limit) == IF n < limit THEN n + 1 ELSE n

\* g_ecs_state.engines[e] as one record
EngineOf(e) ==
    [state              |-> engine_state[e],
     thrust_percentage  |-> engines[e].thrust_percentage,
     fuel_flow_rate     |-> engines[e].fuel_flow_rate,
     oxidizer_flow_rate |-> engines[e].oxidizer_flow_rate,
     ignition_enabled   |-> engines[e].ignition_enabled,
     ignition_time      |-> engines[e].ignition_time,
     shutdown_time      |-> engines[e].shutdown_time,
     fault_detected     |-> engines[e].fault_detected,
     fault_message      |-> engines[e].fault_message]

\* the fields of an engine that are kept in the variable engines
EngineFields(r) ==
    [thrust_percentage  |-> r.thrust_percentage,
     fuel_flow_rate     |-> r.fuel_flow_rate,
     oxidizer_flow_rate |-> r.oxidizer_flow_rate,
     ignition_enabled   |-> r.ignition_enabled,
     ignition_time      |-> r.ignition_time,
     shutdown_time      |-> r.shutdown_time,
     fault_detected     |-> r.fault_detected,
     fault_message      |-> r.fault_message]

\* initialize_engine
initialize_engine ==
    [state              |-> ENGINE_STATE_OFFLINE,
     thrust_percentage  |-> 0,
     fuel_flow_rate     |-> 0,
     oxidizer_flow_rate |-> 0,
     ignition_enabled   |-> FALSE,
     ignition_time      |-> 0,
     shutdown_time      |-> 0,
     fault_detected     |-> FALSE,
     fault_message      |-> ""]

\* the engine control system as the functions of engine_control.c see it
EcsOf ==
    [engines |-> [e \in Engines |-> EngineOf(e)],
     current_phase            |-> g_ecs_state.current_phase,
     ignition_sequence_active |-> g_ecs_state.ignition_sequence_active,
     shutdown_sequence_active |-> g_ecs_state.shutdown_sequence_active,
     ignition_timer           |-> sequence_timer.ignition,
     shutdown_timer           |-> sequence_timer.shutdown]

\* process_ignition_sequence(dt).  Stage 2 writes the turbopump speeds only,
\* which update_engine_sensors overwrites in the same tick.
process_ignition_sequence(ecs) ==
    LET timer == ecs.ignition_timer + 1
    IN IF SequenceTimeBelow(timer, 1)
       THEN [ecs EXCEPT !.ignition_timer = timer,
                        !.engines = [e \in Engines |->
                            [ecs.engines[e] EXCEPT !.state = ENGINE_STATE_PRESTART]]]
       ELSE IF SequenceTimeBelow(timer, 3)
       THEN [ecs EXCEPT !.ignition_timer = timer]
       ELSE IF SequenceTimeBelow(timer, 4)
       THEN [ecs EXCEPT !.ignition_timer = timer,
                        !.engines = [e \in Engines |->
                            [ecs.engines[e] EXCEPT !.state = ENGINE_STATE_IGNITION,
                                                   !.ignition_enabled = TRUE]]]
       ELSE [ecs EXCEPT !.ignition_timer = 0,
                        !.ignition_sequence_active = FALSE,
                        !.engines = [e \in Engines |->
                            IF ecs.engines[e].state = ENGINE_STATE_IGNITION
                            THEN [ecs.engines[e] EXCEPT !.state = ENGINE_STATE_RUNNING]
                            ELSE ecs.engines[e]]]

\* VEHICLE_MIN_THROTTLE * (1.0 - sequence_timer / ENGINE_SHUTDOWN_TIME_S)
RampThrustBroken(timer) ==
    VEHICLE_MIN_THROTTLE * ThrustScale +
    (VEHICLE_MIN_THROTTLE * ThrustScale * timer)
        \div (ENGINE_SHUTDOWN_TIME_S * TicksPerSecond)
RampThrust(timer) ==
    (VEHICLE_MIN_THROTTLE * ThrustScale
        * (ENGINE_SHUTDOWN_TIME_S * TicksPerSecond - timer))
        \div (ENGINE_SHUTDOWN_TIME_S * TicksPerSecond)

\* process_shutdown_sequence(dt)
process_shutdown_sequence(ecs) ==
    LET timer == ecs.shutdown_timer + 1
    IN IF SequenceTimeBelow(timer, ENGINE_SHUTDOWN_TIME_S)
       THEN [ecs EXCEPT !.shutdown_timer = timer,
                        !.engines = [e \in Engines |->
                            IF ecs.engines[e].state = ENGINE_STATE_RUNNING
                            THEN [ecs.engines[e] EXCEPT
                                     !.thrust_percentage = RampThrust(timer)]
                            ELSE ecs.engines[e]]]
       ELSE [ecs EXCEPT !.shutdown_timer = 0,
                        !.shutdown_sequence_active = FALSE,
                        !.engines = [e \in Engines |->
                            [ecs.engines[e] EXCEPT !.state = ENGINE_STATE_OFFLINE,
                                                   !.thrust_percentage = 0,
                                                   !.ignition_enabled = FALSE]]]

\* update_engine_state(engine_id, dt) on engine r
update_engine_state(r, current_phase) ==
    CASE r.state = ENGINE_STATE_OFFLINE ->
           [r EXCEPT !.thrust_percentage = 0, !.ignition_enabled = FALSE]
      [] r.state = ENGINE_STATE_PRESTART ->
           [r EXCEPT !.thrust_percentage = 0]
      [] r.state = ENGINE_STATE_IGNITION ->
           LET t == CountTick(r.ignition_time, TicksPerSecond)
           IN IF IgnitionDelayOver(t)
              THEN [r EXCEPT !.ignition_time = t,
                             !.state = ENGINE_STATE_RUNNING,
                             !.thrust_percentage = VEHICLE_MIN_THROTTLE * ThrustScale]
              ELSE [r EXCEPT !.ignition_time = t]
      [] r.state = ENGINE_STATE_RUNNING ->
           IF current_phase >= PHASE_LIFTOFF /\ r.thrust_percentage < 100 * ThrustScale
           THEN [r EXCEPT !.thrust_percentage =
                    sls_clamp(@ + (20 * ThrustScale) \div TicksPerSecond,
                              0, 100 * ThrustScale)]
           ELSE r
      [] r.state = ENGINE_STATE_SHUTDOWN ->
           LET t == CountTick(r.shutdown_time, ENGINE_SHUTDOWN_TIME_S * TicksPerSecond)
           IN IF ShutdownDelayOver(t)
              THEN [r EXCEPT !.shutdown_time = t, !.state = ENGINE_STATE_OFFLINE]
              ELSE [r EXCEPT !.shutdown_time = t]
      [] r.state = ENGINE_STATE_FAULT ->
           [r EXCEPT !.thrust_percentage = 0, !.ignition_enabled = FALSE]

\* base_fuel_flow and base_oxidizer_flow, kg/s per engine at 100 % thrust
BaseFuelFlow == 200
BaseOxidizerFlow == 400

\* calculate_fuel_flow
calculate_fuel_flow(r) ==
    IF r.state = ENGINE_STATE_RUNNING
    THEN [r EXCEPT !.fuel_flow_rate = (BaseFuelFlow * r.thrust_percentage) \div 100,
                   !.oxidizer_flow_rate = (BaseOxidizerFlow * r.thrust_percentage) \div 100]
    ELSE [r EXCEPT !.fuel_flow_rate = 0, !.oxidizer_flow_rate = 0]

\* rand() / RAND_MAX - 0.5, times 2: the two ends and the middle of the
\* range of sls_simulate_sensor_noise, in units of the amplitude
NoiseInputs == {0 - 1, 0, 1}

\* sls_simulate_sensor_noise(base, base * percent / 100) at noise sample n
sls_simulate_sensor_noise(base, percent, n) == (base * (100 + percent * n)) \div 100

\* simulate_chamber_pressure
simulate_chamber_pressure(r, n) ==
    LET base_pressure ==
            IF r.state = ENGINE_STATE_RUNNING
            THEN Atmospheric
                 + ((ENGINE_MAX_CHAMBER_PRESSURE - Atmospheric) \div (100 * ThrustScale))
                   * r.thrust_percentage
            ELSE Atmospheric
    IN sls_simulate_sensor_noise(base_pressure, 2, n)

\* simulate_turbopump_speed
simulate_turbopump_speed(r, n) ==
    LET base_speed ==
            IF r.state = ENGINE_STATE_RUNNING
            THEN 8000 + (4000 * r.thrust_percentage) \div (100 * ThrustScale)
            ELSE 0
    IN sls_simulate_sensor_noise(base_speed, 5, n)

\* the nozzle temperature of update_engine_sensors
NozzleTemperature(r, n) ==
    IF r.state = ENGINE_STATE_RUNNING THEN 2500 + 50 * n ELSE 300 + 5 * n

\* handle_engine_fault
handle_engine_fault(r, fault_msg) ==
    IF ~r.fault_detected
    THEN [r EXCEPT !.fault_detected = TRUE,
                   !.state = ENGINE_STATE_FAULT,
                   !.fault_message = fault_msg]
    ELSE r

\* the limit that monitor_engine_health finds violated first, as the message
\* it passes to handle_engine_fault; NoFinding when every check passes
NoFinding == ""
HealthFinding(r, n, injected) ==
    IF /\ r.state = ENGINE_STATE_RUNNING
       /\ simulate_chamber_pressure(r, n) > ENGINE_MAX_CHAMBER_PRESSURE
    THEN "Chamber pressure exceeded maximum"
    ELSE IF /\ r.state = ENGINE_STATE_RUNNING
            /\ simulate_chamber_pressure(r, n) < MinChamberPressure
    THEN "Chamber pressure too low"
    ELSE IF /\ r.state = ENGINE_STATE_RUNNING
            /\ simulate_turbopump_speed(r, n) < MinTurbopumpSpeed
    THEN "Turbopump underspeed"
    ELSE IF NozzleTemperature(r, n) > MaxNozzleTemperature
    THEN "Nozzle overtemperature"
    ELSE IF injected
    THEN "Random fault injection"
    ELSE NoFinding

\* monitor_engine_health with noise sample n of the sensors of the engine;
\* injected says that sls_simulate_sensor_fault(0.0001) returns true
monitor_engine_health(r, n, injected) ==
    IF /\ r.state = ENGINE_STATE_RUNNING
       /\ simulate_chamber_pressure(r, n) > ENGINE_MAX_CHAMBER_PRESSURE
    THEN handle_engine_fault(r, "Chamber pressure exceeded maximum")
    ELSE IF /\ r.state = ENGINE_STATE_RUNNING
            /\ simulate_chamber_pressure(r, n) < MinChamberPressure
    THEN handle_engine_fault(r, "Chamber pressure too low")
    ELSE IF /\ r.state = ENGINE_STATE_RUNNING
            /\ simulate_turbopump_speed(r, n) < MinTurbopumpSpeed
    THEN handle_engine_fault(r, "Turbopump underspeed")
    ELSE IF NozzleTemperature(r, n) > MaxNozzleTemperature
    THEN handle_engine_fault(r, "Nozzle overtemperature")
    ELSE IF injected
    THEN handle_engine_fault(r, "Random fault injection")
    ELSE r

\* the outcome of the limit checks of the engine depends on the noise
NoiseDecides(r) ==
    \E m \in NoiseInputs, n \in NoiseInputs :
        monitor_engine_health(r, m, FALSE) # monitor_engine_health(r, n, FALSE)

\* update_engine_state and update_engine_sensors of one engine
UpdatedEngine(r, current_phase) ==
    calculate_fuel_flow(update_engine_state(r, current_phase))

\* the engines for which the fault injection of this tick may return true:
\* at most MaxInjected engines are put into Fault by it in a run
InjectedSets ==
    LET hit == {e \in Engines : engines[e].fault_message = "Random fault injection"}
    IN {S \in SUBSET Engines : Cardinality(S) + Cardinality(hit) <= MaxInjected}

\* the sequences of a tick: process_ignition_sequence, then
\* process_shutdown_sequence, each if its flag is set
Sequenced ==
    LET ignited == IF g_ecs_state.ignition_sequence_active
                   THEN process_ignition_sequence(EcsOf) ELSE EcsOf
    IN IF ignited.shutdown_sequence_active
       THEN process_shutdown_sequence(ignited) ELSE ignited

\* one iteration of the loop of engine_control_thread; injected is the set
\* of engines for which sls_simulate_sensor_fault(0.0001) returns true and
\* noise the noise samples of the engines whose checks depend on them
engine_control_thread ==
    \E sequenced \in {Sequenced} :
    \E updated \in {[e \in Engines |->
                       UpdatedEngine(sequenced.engines[e], sequenced.current_phase)]} :
    \E noisy \in {{e \in Engines : NoiseDecides(updated[e])}} :
    \E injected \in InjectedSets, noise \in [noisy -> NoiseInputs] :
    \E monitored \in {[e \in Engines |->
                         monitor_engine_health(updated[e],
                             IF e \in noisy THEN noise[e] ELSE 0,
                             e \in injected)]} :
        /\ engine_state' = [e \in Engines |-> monitored[e].state]
        /\ health_found' = [e \in Engines |->
                               HealthFinding(updated[e],
                                   IF e \in noisy THEN noise[e] ELSE 0,
                                   e \in injected)]
        /\ engines' = [e \in Engines |-> EngineFields(monitored[e])]
        /\ g_ecs_state' =
             [g_ecs_state EXCEPT
                 !.ignition_sequence_active = sequenced.ignition_sequence_active,
                 !.shutdown_sequence_active = sequenced.shutdown_sequence_active]
        /\ sequence_timer' = [ignition |-> sequenced.ignition_timer,
                              shutdown |-> sequenced.shutdown_timer]
        /\ UNCHANGED <<cmdVars, ringVars, mainVars, fcVars, schedVars>>

\* the ignition sequence is started while no sequence is in progress
start_ignition_sequence ==
    /\ ~g_ecs_state.ignition_sequence_active
    /\ ~g_ecs_state.shutdown_sequence_active
    /\ g_ecs_state' = [g_ecs_state EXCEPT !.ignition_sequence_active = TRUE]
    /\ UNCHANGED <<engine_state, engines, sequence_timer, health_found>>
    /\ UNCHANGED <<cmdVars, ringVars, mainVars, fcVars, schedVars>>

\* the shutdown sequence is started while no sequence is in progress
start_shutdown_sequence ==
    /\ ~g_ecs_state.ignition_sequence_active
    /\ ~g_ecs_state.shutdown_sequence_active
    /\ g_ecs_state' = [g_ecs_state EXCEPT !.shutdown_sequence_active = TRUE]
    /\ UNCHANGED <<engine_state, engines, sequence_timer, health_found>>
    /\ UNCHANGED <<cmdVars, ringVars, mainVars, fcVars, schedVars>>

----------------------------------------------------------------------------
(* The threads of main.c at shutdown: start_subsystems has created one     *)
(* thread for every entry of DEFAULT_SUBSYSTEM_CONFIGS, the main thread is *)
(* in main_control_loop, and a SIGINT or SIGTERM sets                      *)
(* g_shutdown_requested.  The body of the main loop is main_control_loop   *)
(* above; here only its loop test is followed.                             *)

\* DEFAULT_SUBSYSTEM_CONFIGS, in table order: subsystem_threads[i - 1]
DEFAULT_SUBSYSTEM_CONFIGS ==
    << "SUBSYS_FLIGHT_CONTROL", "SUBSYS_ENGINE_CONTROL", "SUBSYS_TELEMETRY",
       "SUBSYS_ENVIRONMENTAL", "SUBSYS_GROUND_SUPPORT", "SUBSYS_NAVIGATION",
       "SUBSYS_POWER", "SUBSYS_THERMAL" >>

\* active_subsystems after start_subsystems
active_subsystems == Len(DEFAULT_SUBSYSTEM_CONFIGS)
Subsystems == 1..active_subsystems

\* static volatile bool g_fc_shutdown = false, g_ecs_shutdown = false,
\* g_telem_shutdown = false: no statement of the program assigns them
g_fc_shutdown    == FALSE
g_ecs_shutdown   == FALSE
g_telem_shutdown == FALSE

\* the condition of the while loop of the thread function of subsystem s
LoopCondition(s) ==
    CASE DEFAULT_SUBSYSTEM_CONFIGS[s] = "SUBSYS_FLIGHT_CONTROL" -> ~g_fc_shutdown
      [] DEFAULT_SUBSYSTEM_CONFIGS[s] = "SUBSYS_ENGINE_CONTROL" -> ~g_ecs_shutdown
      [] DEFAULT_SUBSYSTEM_CONFIGS[s] = "SUBSYS_TELEMETRY"      -> ~g_telem_shutdown
      [] OTHER -> TRUE

\* a step of the thread of a subsystem: the loop test at the loop header,
\* followed by the body up to the sleep or by the return of the thread
\* function; or the end of the sleep
subsystem_thread ==
    \E s \in Subsystems :
        /\ thread_pc[s] # "done"
        /\ thread_pc' = [thread_pc EXCEPT ![s] =
                            IF thread_pc[s] = "sleep" THEN "header"
                            ELSE IF LoopCondition(s) THEN "sleep"
                            ELSE "done"]
        /\ UNCHANGED <<main_pc, join_index, last_iteration, warn_count>>
        /\ UNCHANGED <<cmdVars, ringVars, mainVars, engineVars, fcVars>>

\* the loop test of main_control_loop finds g_shutdown_requested set
main_control_loop_exit ==
    /\ main_pc = "loop"
    /\ g_shutdown_requested
    /\ main_pc' = "shutdown"
    /\ UNCHANGED <<thread_pc, join_index, last_iteration, warn_count>>
    /\ UNCHANGED <<cmdVars, ringVars, mainVars, engineVars, fcVars>>

\* shutdown_system: the status broadcast, which no thread reads, then one
\* pthread_join per step; a join returns when its thread has returned
shutdown_system ==
    /\ main_pc \in {"shutdown", "join"}
    /\ IF main_pc = "shutdown"
       THEN /\ g_system_state' = "STATE_SHUTDOWN"
            /\ main_pc' = "join"
            /\ join_index' = 0
       ELSE /\ join_index < active_subsystems => thread_pc[join_index + 1] = "done"
            /\ IF join_index < active_subsystems
               THEN join_index' = join_index + 1 /\ main_pc' = main_pc
               ELSE join_index' = join_index /\ main_pc' = "exit"
            /\ UNCHANGED g_system_state
    /\ UNCHANGED <<main_mission_time, g_current_phase, last_phase, g_shutdown_requested>>
    /\ UNCHANGED <<thread_pc, last_iteration, warn_count>>
    /\ UNCHANGED <<cmdVars, ringVars, engineVars, fcVars>>

----------------------------------------------------------------------------
(* The periodic loops of main.c, flight_control.c, engine_control.c and    *)
(* telemetry.c.  Time is counted in quarters of the period of the loop;    *)
(* an iteration runs from one wake of the loop to the next.                *)

\* the components of the loops, as they tag their log lines
Loops == {"MAIN", "FCC", "ECS", "TELEM"}

\* loop_period_ns
PeriodUnits == 4

\* elapsed_ns of an iteration
ElapsedInputs == 0..MaxElapsed

\* if (elapsed_ns < loop_period_ns) sleep_time.tv_nsec = loop_period_ns -
\* elapsed_ns -- no sleep otherwise
SleepRequest(elapsed) == IF elapsed < PeriodUnits THEN PeriodUnits - elapsed ELSE 0

\* nanosleep(&sleep_time, NULL): the time slept is the time requested, or
\* less when a handled signal interrupts the sleep (the remaining time is
\* not asked for and the call is not repeated)
Nanosleep(request) == 0..request

\* the else branch of main_control_loop logs "Main loop overrun" at
\* LOG_LEVEL_WARNING; the other loops have no else branch, and their other
\* warnings (fuel, dynamic pressure, acceleration, log file) do not read
\* elapsed_ns
LogsOverrun(c, elapsed) == c = "MAIN" /\ elapsed >= PeriodUnits

\* the condition of the while loop of the loop with component c
LoopRuns(c, shutdown_requested) ==
    CASE c = "MAIN"  -> ~shutdown_requested
      [] c = "FCC"   -> ~g_fc_shutdown
      [] c = "ECS"   -> ~g_ecs_shutdown
      [] c = "TELEM" -> ~g_telem_shutdown

\* one iteration of a periodic loop: the body takes elapsed, then the loop
\* sleeps or logs; a sleep that ends early was interrupted by SIGINT or
\* SIGTERM, whose handler has set g_shutdown_requested
periodic_loop_iteration ==
    \E c \in Loops, elapsed \in ElapsedInputs :
    \E slept \in Nanosleep(SleepRequest(elapsed)) :
        /\ LoopRuns(c, g_shutdown_requested)
        /\ LogsOverrun(c, elapsed) => warn_count[c] < MaxWarn
        /\ g_shutdown_requested' =
              (g_shutdown_requested \/ slept < SleepRequest(elapsed))
        /\ last_iteration' = [component |-> c, elapsed |-> elapsed, slept |-> slept,
                              woke |-> LoopRuns(c, g_shutdown_requested')]
        /\ warn_count' = IF LogsOverrun(c, elapsed)
                         THEN [warn_count EXCEPT ![c] = @ + 1]
                         ELSE warn_count
        /\ UNCHANGED <<main_mission_time, g_current_phase, last_phase, g_system_state>>
        /\ UNCHANGED <<thread_pc, main_pc, join_index>>
        /\ UNCHANGED <<cmdVars, ringVars, engineVars, fcVars>>

----------------------------------------------------------------------------
(* Operator console, console.c: main reads lines from stdin, maps each to  *)
(* a command message and sends it to the command service "sls_fcc".  A     *)
(* line is a sequence of characters; ipc_client_send returns when          *)
(* recv_loop has handled the message and replied, so the stores of the     *)
(* handler are part of the step that sends.                                *)

KwStatus   == << "s", "t", "a", "t", "u", "s" >>
KwGo       == << "g", "o" >>
KwNogo     == << "n", "o", "g", "o" >>
KwAbort    == << "a", "b", "o", "r", "t" >>
KwThrottle == << "t", "h", "r", "o", "t", "t", "l", "e" >>
KwQuit     == << "q", "u", "i", "t" >>
KwExit     == << "e", "x", "i", "t" >>

\* the numbers an operator types after "throttle ", with their values
ThrottleTexts ==
    { [text |-> << "0" >>, n |-> 0],
      [text |-> << "5", "0" >>, n |-> 50],
      [text |-> << "2", "5", "0" >>, n |-> 250],
      [text |-> << "-", "5" >>, n |-> 0 - 5] }

\* what the operator types before the end of the line
TypedLines ==
    { KwStatus, KwGo, KwNogo, KwAbort, KwQuit, KwExit }
    \cup { KwThrottle \o << " " >> \o t.text : t \in ThrottleTexts }
    \cup { KwThrottle,
           KwThrottle \o << "x" >>,
           KwThrottle \o << " ", "a", "b", "c" >>,
           KwThrottle \o << "5", "0" >>,
           << >>,
           << "G", "O" >>,
           << "g", "o", "x" >>,
           << "l", "a", "u", "n", "c", "h" >>,
           << "g", "o", " " >>,
           << " ", "g", "o" >>,
           << "q", "u", "i", "t", " " >> }

\* the line as fgets returns it: ended by a newline, by carriage return and
\* newline, or by the end of the input
LineEnds == { << >>, << "\n" >>, << "\r", "\n" >> }
ConsoleInputs == { typed \o end : typed \in TypedLines, end \in LineEnds }

\* if (len && (line[len-1] == '\n' || line[len-1] == '\r')) line[len-1] = 0
StripNewline(raw) ==
    IF Len(raw) > 0 /\ raw[Len(raw)] \in {"\n", "\r"}
    THEN SubSeq(raw, 1, Len(raw) - 1)
    ELSE raw

\* strcmp(line, word) == 0
strcmp_eq(line, word) == line = word
\* strncmp(line, "throttle", 8) == 0
strncmp_eq(line, word, n) == Len(line) >= n /\ SubSeq(line, 1, n) = SubSeq(word, 1, n)

\* atoi: leading white space, an optional sign, then the leading digits
DigitChars == << "0", "1", "2", "3", "4", "5", "6", "7", "8", "9" >>
IsDigit(c) == \E i \in 1..10 : DigitChars[i] = c
DigitValue(c) == (CHOOSE i \in 1..10 : DigitChars[i] = c) - 1
isspace(c) == c \in {" ", "\t", "\n", "\r", "\f"}

RECURSIVE SkipSpace(_)
SkipSpace(s) == IF s # << >> /\ isspace(Head(s)) THEN SkipSpace(Tail(s)) ELSE s

RECURSIVE LeadingDigits(_, _)
LeadingDigits(s, acc) ==
    IF s = << >> \/ ~IsDigit(Head(s)) THEN acc
    ELSE LeadingDigits(Tail(s), acc * 10 + DigitValue(Head(s)))

atoi(s) ==
    LET t == SkipSpace(s)
        signed == t # << >> /\ Head(t) \in {"-", "+"}
        digits == IF signed THEN Tail(t) ELSE t
        v == LeadingDigits(digits, 0)
    IN IF signed /\ Head(t) = "-" THEN 0 - v ELSE v

\* int v = atoi(line + 8); msg.value = v
ThrottleValueBroken(line) == Clamp(atoi(SubSeq(line, 9, Len(line))))
ThrottleValue(line) == atoi(SubSeq(line, 9, Len(line)))

NoMessage == [type |-> 0, value |-> 0]

\* the if-else chain of main: the message for a line, or NoMessage for
\* the else branch ("Unknown command")
ConsoleMessage(line) ==
    IF strncmp_eq(line, KwThrottle, 8)
    THEN [type |-> CMD_SET_THROTTLE, value |-> ThrottleValue(line)]
    ELSE IF strcmp_eq(line, KwStatus) THEN [type |-> CMD_STATUS, value |-> 0]
    ELSE IF strcmp_eq(line, KwGo) THEN [type |-> CMD_GO, value |-> 0]
    ELSE IF strcmp_eq(line, KwNogo) THEN [type |-> CMD_NOGO, value |-> 0]
    ELSE IF strcmp_eq(line, KwAbort) THEN [type |-> CMD_ABORT, value |-> 0]
    ELSE NoMessage

\* one round of the loop of main with the line raw read by fgets
console_line ==
    \E raw \in ConsoleInputs :
    \E line \in {StripNewline(raw)} :
    \E m \in {ConsoleMessage(line)} :
        /\ console.pc = "prompt"
        /\ console.lines < MaxConsoleLines
        /\ rpc = "recv" /\ spc = "loop"
        /\ IF strcmp_eq(line, KwQuit) \/ strcmp_eq(line, KwExit)
           THEN /\ console' = [console EXCEPT !.pc = "done", !.raw = raw,
                                              !.lines = @ + 1]
                /\ UNCHANGED <<g_mission_go, g_abort_req, g_throttle>>
           ELSE IF m = NoMessage
           THEN /\ console' = [console EXCEPT !.raw = raw, !.lines = @ + 1]
                /\ UNCHANGED <<g_mission_go, g_abort_req, g_throttle>>
           ELSE /\ console' = [console EXCEPT !.raw = raw, !.lines = @ + 1,
                                              !.sent = Append(@, m)]
                /\ g_mission_go' = CommandMissionGo(m.type, g_mission_go)
                /\ g_abort_req' = CommandAbortReq(m.type, g_abort_req)
                /\ g_throttle' = SwitchThrottle(m.type, m.value, g_throttle)
        /\ UNCHANGED <<g_altitude, g_velocity, g_mission_time,
                       rpc, msg, reply, out, spc, tmp, abort_steps>>
        /\ UNCHANGED <<ringVars, flightVars, logger, clamp_call, last_reader>>

\* fgets returns NULL at the end of the input: break
console_eof ==
    /\ console.pc = "prompt"
    /\ console' = [console EXCEPT !.pc = "done"]
    /\ UNCHANGED <<g_mission_go, g_abort_req, g_throttle, g_altitude,
                   g_velocity, g_mission_time, rpc, msg, reply, out, spc,
                   tmp, abort_steps>>
    /\ UNCHANGED <<ringVars, flightVars, logger, clamp_call, last_reader>>

----------------------------------------------------------------------------
(* Logging, sls_logging.c: the calls of one thread, as in                  *)
(* test_logging_system.  g_log_mutex is a PTHREAD_MUTEX_INITIALIZER mutex; *)
(* logger.mutex tells whether the calling thread holds it.                 *)

LOG_LEVEL_DEBUG    == 0
LOG_LEVEL_INFO     == 1
LOG_LEVEL_WARNING  == 2
LOG_LEVEL_ERROR    == 3
LOG_LEVEL_CRITICAL == 4
LogLevels == LOG_LEVEL_DEBUG..LOG_LEVEL_CRITICAL

\* if (!g_logging_initialized || level < g_min_log_level) return;
LogPasses(lg, level) == lg.initialized /\ level >= lg.min_level

\* pthread_mutex_lock on a default mutex the caller already holds is
\* undefined: the call blocks for ever (a normal mutex), or fails with
\* EDEADLK, which the code does not look at (an error-checking mutex)
RelockOutcomes == {"blocks", "EDEADLK"}

\* write_log_entry called without the mutex held: lock, the line goes to
\* the console and, when a file is open, to the file; unlock
write_log_entry(lg) ==
    [lg EXCEPT !.lines = IF lg.file_open THEN @ + 1 ELSE @]

\* sls_log from a caller that does not hold the mutex
sls_log_from(lg, level) ==
    IF LogPasses(lg, level) THEN write_log_entry(lg) ELSE lg

\* sls_logging_init(path); opened tells whether fopen(path, "a") succeeds
sls_logging_init ==
    \E opened \in BOOLEAN :
        /\ logger.pc = "ready"
        /\ logger.lines + 2 <= MaxLogLines
        /\ logger' =
              IF logger.initialized THEN [logger EXCEPT !.last = "init"]
              ELSE IF ~opened THEN [logger EXCEPT !.last = "init_failed"]
              ELSE LET started == [logger EXCEPT !.file_open = TRUE,
                                                 !.on_disk = TRUE,
                                                 !.initialized = TRUE,
                                                 !.last = "init"]
                   IN sls_log_from(sls_log_from(started, LOG_LEVEL_INFO),
                                   LOG_LEVEL_INFO)
        /\ UNCHANGED <<g_mission_go, g_throttle, g_abort_req, g_altitude,
                       g_velocity, g_mission_time, rpc, msg, reply, out, spc,
                       tmp, abort_steps, console, clamp_call,
                       last_reader>>
        /\ UNCHANGED <<ringVars, flightVars>>

\* sls_log(level, ...)
sls_log ==
    \E level \in LogLevels :
        /\ logger.pc = "ready"
        /\ logger.lines < MaxLogLines
        /\ logger' = [sls_log_from(logger, level) EXCEPT !.last = "log"]
        /\ UNCHANGED <<g_mission_go, g_throttle, g_abort_req, g_altitude,
                       g_velocity, g_mission_time, rpc, msg, reply, out, spc,
                       tmp, abort_steps, console, clamp_call,
                       last_reader>>
        /\ UNCHANGED <<ringVars, flightVars>>

\* sls_logging_set_level(min_level)
sls_logging_set_level ==
    \E min_level \in LogLevels :
        /\ logger.pc = "ready"
        /\ logger' = [logger EXCEPT !.min_level = min_level, !.last = "set_level"]
        /\ UNCHANGED <<g_mission_go, g_throttle, g_abort_req, g_altitude,
                       g_velocity, g_mission_time, rpc, msg, reply, out, spc,
                       tmp, abort_steps, console, clamp_call,
                       last_reader>>
        /\ UNCHANGED <<ringVars, flightVars>>

\* sls_logging_cleanup: the mutex is taken, then sls_log is called with the
\* mutex held, and write_log_entry locks it again
sls_logging_cleanup ==
    \E relock \in RelockOutcomes :
        /\ logger.pc = "ready"
        /\ logger.lines < MaxLogLines
        /\ logger' =
              IF ~logger.initialized THEN [logger EXCEPT !.last = "cleanup"]
              ELSE IF LogPasses(logger, LOG_LEVEL_INFO) /\ relock = "blocks"
              THEN [logger EXCEPT !.pc = "blocked", !.mutex = "held",
                                  !.last = "none"]
              ELSE [sls_log_from(logger, LOG_LEVEL_INFO) EXCEPT
                        !.file_open = FALSE,
                        !.initialized = FALSE,
                        !.last = "cleanup"]
        /\ UNCHANGED <<g_mission_go, g_throttle, g_abort_req, g_altitude,
                       g_velocity, g_mission_time, rpc, msg, reply, out, spc,
                       tmp, abort_steps, console, clamp_call,
                       last_reader>>
        /\ UNCHANGED <<ringVars, flightVars>>

----------------------------------------------------------------------------
(* sls_clamp of sls_utils.c, called with any three numbers *)

ClampInputs == (0 - MaxClamp)..MaxClamp

clamp_caller ==
    \E value \in ClampInputs, min_val \in ClampInputs, max_val \in ClampInputs :
        /\ clamp_call' = [value |-> value, min_val |-> min_val,
                          max_val |-> max_val,
                          result |-> sls_clamp(value, min_val, max_val)]
        /\ UNCHANGED <<g_mission_go, g_throttle, g_abort_req, g_altitude,
                       g_velocity, g_mission_time, rpc, msg, reply, out, spc,
                       tmp, abort_steps, console, logger,
                       last_reader>>
        /\ UNCHANGED <<ringVars, flightVars>>

----------------------------------------------------------------------------
InitCmd ==
    /\ g_mission_go = 0 /\ g_throttle = 0 /\ g_abort_req = 0
    /\ g_altitude = 0 /\ g_velocity = 0 /\ g_mission_time = 0
    /\ rpc = "recv"
    /\ msg = [rcvid |-> 0, type |-> 0, value |-> 0]
    /\ reply = [ok |-> 0, mission_go |-> 0, throttle |-> 0]
    /\ out = NoReply
    /\ spc = "loop"
    /\ tmp = 0
    /\ abort_steps = NoAbort
    /\ last_reader = 0
    /\ clamp_call = [value |-> 0, min_val |-> 0, max_val |-> 0,
                     result |-> sls_clamp(0, 0, 0)]
    /\ console = [pc |-> "prompt", raw |-> << >>, lines |-> 0, sent |-> << >>]
    /\ logger = [pc |-> "ready", mutex |-> "free", initialized |-> FALSE,
                 file_open |-> FALSE, on_disk |-> FALSE,
                 min_level |-> LOG_LEVEL_INFO, lines |-> 0, last |-> "none"]

InitRing ==
    /\ ring = [c \in Cells |-> NUL]
    /\ r_head = 0 /\ r_tail = 0
    /\ rd = NoRead
    /\ pending = FALSE
    /\ emitted = <<>>
    /\ ring_src = [c \in Cells |-> 0]
    /\ delivered = <<>>
    /\ lost = 0

InitFlight ==
    /\ main_mission_time = MissionStart
    /\ g_current_phase = PHASE_PRELAUNCH
    /\ last_phase = PHASE_UNKNOWN
    /\ g_shutdown_requested = FALSE
    /\ g_system_state = "STATE_ACTIVE"
    /\ engine_state = [e \in Engines |-> initialize_engine.state]
    /\ engines = [e \in Engines |-> EngineFields(initialize_engine)]
    /\ g_ecs_state = [current_phase |-> PHASE_PRELAUNCH,
                      ignition_sequence_active |-> FALSE,
                      shutdown_sequence_active |-> FALSE]
    /\ sequence_timer = [ignition |-> 0, shutdown |-> 0]
    /\ health_found = [e \in Engines |-> NoFinding]
    /\ g_fc_state = [current_phase |-> PHASE_PRELAUNCH,
                     autopilot_enabled |-> TRUE,
                     guidance_active |-> FALSE,
                     vehicle_state |->
                         [mission_time |-> 0,
                          mass |-> VEHICLE_DRY_MASS_KG + VEHICLE_FUEL_MASS_KG,
                          fuel_remaining |-> Percent(100),
                          thrust |-> 0,
                          acceleration |-> Zero3,
                          velocity |-> Zero3,
                          position |-> Zero3,
                          altitude |-> Exact(0)]]
    /\ lag = 0
    /\ thread_pc = [s \in Subsystems |-> "header"]
    /\ main_pc = "loop"
    /\ join_index = 0
    /\ last_iteration = [component |-> "NONE", elapsed |-> 0, slept |-> 0,
                         woke |-> FALSE]
    /\ warn_count = [c \in Loops |-> 0]

Init == InitCmd /\ InitRing /\ InitFlight

Next == recv_loop \/ SimLoop \/ step_sim \/ ipc_server_stop

Spec == Init /\ [][Next]_vars

NextRing == rmgr_telemetry_append \/ io_read

\* the telemetry device with its writer and one reader
RingSpec == Init /\ [][NextRing]_vars

\* the resource manager thread serves every request its dispatch loop
\* receives, and the main loop appends one line per simulation step
FairRingSpec == RingSpec /\ WF_vars(io_read) /\ WF_vars(rmgr_telemetry_append)

NextSim == sim_command \/ sim_iteration \/ sim_exit

\* the simulator of main_qnx.c, step by step
SimSpec == Init /\ [][NextSim]_vars

NextConsole == console_line \/ console_eof

\* the operator console and the command service that handles its messages
ConsoleSpec == Init /\ [][NextConsole]_vars

NextLog ==
    sls_logging_init \/ sls_log \/ sls_logging_set_level \/ sls_logging_cleanup

\* the logging calls of one thread
LogSpec == Init /\ [][NextLog]_vars

NextClamp == clamp_caller

\* sls_clamp applied to every triple of the input range
ClampSpec == Init /\ [][NextClamp]_vars

NextReaders == rmgr_telemetry_append \/ io_read_by

\* the telemetry device with two readers
ReadersSpec == Init /\ [][NextReaders]_vars

NextPhase == main_control_loop \/ signal_handler \/ engine_control_thread

\* the main loop of the launch simulation and its engine control thread
PhaseSpec == Init /\ [][NextPhase]_vars

NextEngine ==
    engine_control_thread \/ start_ignition_sequence \/ start_shutdown_sequence

\* the engine control thread and the two sequences it is asked to run
EngineSpec == Init /\ [][NextEngine]_vars

NextShutdown ==
    \/ signal_handler
    \/ subsystem_thread
    \/ main_control_loop_exit
    \/ shutdown_system

\* the threads of main.c around a shutdown request
ShutdownSpec == Init /\ [][NextShutdown]_vars

NextLoop == periodic_loop_iteration

\* the periodic loops, one iteration at a time
LoopSpec == Init /\ [][NextLoop]_vars

NextFlight == main_control_loop_fc \/ flight_control_thread \/ CommandAbort

\* the main loop of the launch simulation, its flight control thread and
\* the Abort command
FlightSpec == Init /\ [][NextFlight]_vars

\* the receiver thread runs at SCHED_RR priority 70 and does not block while
\* it handles a message, so its handling steps are taken eventually
FairSpec == Spec /\ WF_vars(RecvHandle)

----------------------------------------------------------------------------
(* Properties of the command service *)

shared == <<g_mission_go, g_throttle, g_abort_req>>

\* positions of the receiver thread while it handles a client message
Handling == {"init_go", "init_thr", "switch", "go2", "abort2",
             "post_go", "post_thr", "reply"}

\* a step of the receiver thread that belongs to the handling of msg
HandlerStep == rpc \in Handling /\ rpc' # rpc

\* C1: when the receiver is about to reply to a command, the shared state is
\* the one the command table gives for that command, and the reply has ok = 1
\* and carries the values the command gave mission_go and throttle.
C1_CommandTable ==
    (rpc = "reply" /\ msg.type \in CmdTypes) =>
        /\ reply.ok = 1
        /\ (msg.type = CMD_GO =>
                g_mission_go = 1 /\ g_abort_req = 0 /\ reply.mission_go = 1)
        /\ (msg.type = CMD_NOGO =>
                g_mission_go = 0 /\ reply.mission_go = 0)
        /\ (msg.type = CMD_ABORT =>
                g_abort_req = 1 /\ g_mission_go = 0 /\ reply.mission_go = 0)
        /\ (msg.type = CMD_SET_THROTTLE =>
                g_throttle = Clamp(msg.value) /\ reply.throttle = Clamp(msg.value))

\* C2: the throttle of every reply, built or sent, is in 0..100.
C2_ReplyThrottleRange ==
    /\ (out # NoReply => out.throttle \in 0..100)
    /\ (rpc = "reply" => reply.throttle \in 0..100)

\* C3: only the receiver thread, in the stores of its switch, changes
\* mission_go, throttle or abort_requested.
C3_SingleWriter ==
    [][shared' # shared => (rpc \in {"switch", "go2", "abort2"} /\ rpc' # rpc)]_vars

\* C4: a step of the receiver handling a command changes only the fields the
\* command's table row names: Status none, NoGo only mission_go, Throttle
\* only throttle, Go and Abort only mission_go and abort_requested.
C4_Frame ==
    [][HandlerStep =>
        /\ (msg.type = CMD_STATUS => shared' = shared)
        /\ (msg.type = CMD_NOGO =>
                g_throttle' = g_throttle /\ g_abort_req' = g_abort_req)
        /\ (msg.type = CMD_SET_THROTTLE =>
                g_mission_go' = g_mission_go /\ g_abort_req' = g_abort_req)
        /\ (msg.type \in {CMD_GO, CMD_ABORT} => g_throttle' = g_throttle)]_vars

\* NoGo was handled while abort_requested was set, and it is still set
C4_Witness ==
    /\ rpc = "reply" /\ msg.type = CMD_NOGO
    /\ g_abort_req = 1 /\ g_throttle = 100

\* C5: a client message of unknown type changes none of the three fields, its
\* reply has ok = 0 and carries the values the receiver loaded from
\* mission_go and throttle after the switch, and the reply is always sent.
C5_UnknownType ==
    /\ [][(HandlerStep /\ msg.type \notin CmdTypes) =>
            /\ shared' = shared
            /\ (rpc = "post_go" => reply'.mission_go = g_mission_go)
            /\ (rpc = "post_thr" => reply'.throttle = g_throttle)
            /\ (rpc = "reply" => out' = reply /\ out'.ok = 0)]_vars
    /\ (rpc = "init_go") ~> (rpc = "recv" /\ out # NoReply)

\* an unknown message was answered with ok = 0 and a non-default state
C5_Witness ==
    /\ rpc = "recv" /\ msg.rcvid = 1 /\ msg.type \notin CmdTypes
    /\ out.ok = 0 /\ out.throttle = 100 /\ out.mission_go = 1

\* C6: receiving a pulse sends no reply and changes none of the three fields;
\* the receiver handles only client messages and, after a pulse, is back at
\* MsgReceive where the next client message is accepted.
C6_Pulse ==
    /\ [][RecvPulse => (out' = out /\ shared' = shared /\ rpc' = "recv")]_vars
    /\ [](rpc \in Handling => msg.rcvid = 1)
    /\ []((rpc = "recv" /\ msg.rcvid = 0) => ENABLED RecvMessage)

\* a pulse arrived after a command had been served
C6_Witness ==
    /\ rpc = "recv" /\ msg.rcvid = 0 /\ msg.type = PULSE_TICK
    /\ out.ok = 1 /\ g_throttle = 100

----------------------------------------------------------------------------
(* Properties of the telemetry device *)

\* stream offset off is the first byte of a record the writer appended
IsRecordStart(off) == off >= 1 /\ (off = 1 \/ emitted[off - 1] = LF)

Min(a, b) == IF a < b THEN a ELSE b

\* C7: the bytes of every successful read start at the first byte of a record
\* and end with a newline.
C7_CompleteRecords ==
    rd.status = "OK" =>
        /\ IsRecordStart(rd.src[1])
        /\ emitted[rd.src[Len(rd.src)]] = LF

\* C8: as long as nothing has been read, the read head is at the first byte
\* of a record (or the ring is empty), whatever was appended and dropped.
C8_HeadAtRecordStart ==
    delivered = <<>> =>
        (r_tail = r_head \/ IsRecordStart(ring_src[r_tail]))

\* C9 as claimed: the concatenation of the bytes read is a prefix of the
\* emitted byte stream.
C9_Prefix ==
    \A i \in 1..Len(delivered) : emitted[delivered[i]] = emitted[i]

\* C9 as amended: every read is a contiguous run of the emitted stream, the
\* bytes read lie at strictly increasing stream offsets, every emitted byte
\* was read, is unread in the ring or was dropped by an overwrite, and
\* while nothing was dropped the bytes read are a prefix of the stream.
C9_OrderedStream ==
    /\ \A i \in 1..(Len(delivered) - 1) : delivered[i] < delivered[i + 1]
    /\ \A i \in 1..(Len(rd.src) - 1) : rd.src[i + 1] = rd.src[i] + 1
    /\ Len(delivered) + Available(r_head, r_tail) + lost = Len(emitted)
    /\ (lost = 0 => \A i \in 1..Len(delivered) : delivered[i] = i)

\* bytes were dropped between two reads, and the later read went on behind them
C9_Witness ==
    /\ lost > 0
    /\ \E i \in 1..(Len(delivered) - 1) : delivered[i + 1] > delivered[i] + 1

\* C10: a non-blocking read of n > 0 bytes on an empty device gives EAGAIN and
\* moves neither head; on a non-empty device a read of n > 0 bytes returns
\* exactly min(available, n, RBUF_SZ - r_tail) bytes, none of them from
\* beyond the wrap point, and advances r_tail by that count modulo RBUF_SZ.
\* (A step of the device that leaves emitted unchanged is a step of io_read,
\* and rd' holds the request of that read.)
C10_Read ==
    [][(emitted' = emitted /\ rd'.xtype = 0 /\ rd'.nbytes > 0) =>
        LET avail == Available(r_head, r_tail)
            cnt   == Min(Min(avail, rd'.nbytes), RBUF_SZ - r_tail)
        IN /\ r_head' = r_head
           /\ (avail = 0 /\ rd'.nonblock) =>
                  (rd'.status = "EAGAIN" /\ r_tail' = r_tail)
           /\ avail > 0 =>
                  /\ rd'.status = "OK"
                  /\ rd'.n1 = cnt /\ Len(rd'.src) = cnt
                  /\ r_tail + cnt <= RBUF_SZ
                  /\ r_tail' = (r_tail + cnt) % RBUF_SZ]_vars

\* a non-blocking read was cut short at the wrap point
C10_Witness ==
    /\ rd.status = "OK" /\ rd.nonblock
    /\ rd.n1 < rd.nbytes /\ rd.n1 < rd.avail
    /\ r_tail = 0

\* C11: a blocking read issued on an empty device is completed once the
\* writer has appended data: a reader left without a reply while bytes are
\* available is eventually replied to.
C11_BlockedReadCompletes ==
    (pending /\ Available(r_head, r_tail) > 0) ~> ~pending

----------------------------------------------------------------------------
(* Properties of the simulator loop *)

\* C19: the altitude of the simulator is never negative after a step of
\* step_sim, whatever commands are handled between the steps.
C19_SimAltitudeNonNegative == g_altitude >= 0

----------------------------------------------------------------------------
(* Properties of the mission phase *)

AllEnginesRunning == \A e \in Engines : engine_state[e] = ENGINE_STATE_RUNNING

\* C12: the mission phase only moves forward in the order PreLaunch,
\* Ignition, Liftoff, Ascent, StageSeparation, OrbitInsertion,
\* MissionComplete (the order of mission_phase_t): no step returns to an
\* earlier phase, and Abort is never left.
C12_PhaseForward ==
    [][/\ g_current_phase' >= g_current_phase
       /\ g_current_phase = PHASE_ABORT => g_current_phase' = PHASE_ABORT]_vars

\* the clock has run past the last window of the table
C12_Witness ==
    /\ main_mission_time > T_PLUS_ORBIT_INSERT
    /\ g_current_phase = PHASE_ORBIT_INSERTION

\* C13: at every mission time in [-6 s, 0 s) the phase is Ignition.
C13_IgnitionWindow ==
    (main_mission_time >= T_MINUS_ENGINE_START /\ main_mission_time < T_ZERO_LIFTOFF)
        => g_current_phase = PHASE_IGNITION

\* C14: the phase becomes Liftoff only in a step taken while all engines are
\* Running.
C14_LiftoffNeedsEngines ==
    [][(g_current_phase' = PHASE_LIFTOFF /\ g_current_phase # PHASE_LIFTOFF)
          => AllEnginesRunning]_vars

\* C15: from mission time +480 s on the phase is MissionComplete (or Abort).
C15_MissionComplete ==
    main_mission_time >= T_PLUS_ORBIT_INSERT
        => g_current_phase \in {PHASE_MISSION_COMPLETE, PHASE_ABORT}

----------------------------------------------------------------------------
(* Properties of flight control *)

\* a step of the flight control thread
FcTick == lag' = lag - 1

\* C16: a flight control tick that starts with the abort requested and the
\* mission phase not terminal ends in phase Abort with the autopilot
\* disabled.
C16_AbortWithinOnePeriod ==
    [][(/\ FcTick
        /\ g_abort_req = 1
        /\ g_current_phase \notin {PHASE_MISSION_COMPLETE, PHASE_ABORT})
          => (/\ g_fc_state'.current_phase = PHASE_ABORT
              /\ ~g_fc_state'.autopilot_enabled)]_vars

\* C17: at the end of every flight control tick in a phase before Liftoff
\* the velocity is 0 on every axis and the altitude is 0.
C17_GroundHold ==
    g_fc_state.current_phase < PHASE_LIFTOFF =>
        /\ \A i \in Axes : g_fc_state.vehicle_state.velocity[i] = Exact(0)
        /\ g_fc_state.vehicle_state.altitude = Exact(0)

\* flight control has ticked on the ground, shortly before liftoff
C17_Witness ==
    /\ g_fc_state.current_phase < PHASE_LIFTOFF
    /\ g_fc_state.vehicle_state.mission_time >= 0 - MissionStart - 1

\* C18: the altitude is never negative at the end of a flight control tick.
C18_AltitudeNonNegative ==
    /\ g_fc_state.vehicle_state.altitude.known
    /\ g_fc_state.vehicle_state.altitude.v >= 0

\* C20: fuel_remaining is within [0, 100] percent at the end of every flight
\* control tick.
C20_FuelRange ==
    /\ g_fc_state.vehicle_state.fuel_remaining >= Percent(0)
    /\ g_fc_state.vehicle_state.fuel_remaining <= Percent(100)

\* after stage separation the mass has dropped below the dry mass
C20_Witness ==
    /\ g_fc_state.current_phase = PHASE_ORBIT_INSERTION
    /\ g_fc_state.vehicle_state.mass < VEHICLE_DRY_MASS_KG
    /\ g_fc_state.vehicle_state.fuel_remaining = Percent(0)

\* C21: the vehicle mass is strictly positive at the end of every flight
\* control tick.
C21_MassPositive == g_fc_state.vehicle_state.mass > 0

\* the fuel burnt by a tick that ends in the given phase
TickBurn(phase) == IF InFlight(phase) THEN FuelFlowRate ELSE 0

\* C22: the mass is multiplied by 0.3 in the flight control tick that moves
\* the controller's phase to StageSeparation, and in no other tick: every
\* other tick changes the mass by the fuel it burns only, and the phase of
\* the controller never returns to StageSeparation.
C22_SeparationOnce ==
    [][FcTick =>
         LET old == g_fc_state
             new == g_fc_state'
             entering == /\ new.current_phase = PHASE_STAGE_SEPARATION
                         /\ old.current_phase # PHASE_STAGE_SEPARATION
         IN /\ new.current_phase >= old.current_phase
            /\ new.vehicle_state.mass =
                 (IF entering THEN (old.vehicle_state.mass * 3) \div 10
                              ELSE old.vehicle_state.mass)
                 - TickBurn(new.current_phase)]_vars

\* the controller has gone through StageSeparation and ticks on
C22_Witness ==
    /\ g_fc_state.current_phase = PHASE_ORBIT_INSERTION
    /\ g_fc_state.vehicle_state.mission_time > 7400
    /\ g_fc_state.vehicle_state.mass < VEHICLE_DRY_MASS_KG

----------------------------------------------------------------------------
(* Properties of the engine control thread *)

IgnitionActive == g_ecs_state.ignition_sequence_active
ShutdownActive == g_ecs_state.shutdown_sequence_active

\* engine e is Running at minimum throttle
RunningAtMinThrottle(e) ==
    /\ engine_state[e] = ENGINE_STATE_RUNNING
    /\ engines[e].thrust_percentage = VEHICLE_MIN_THROTTLE * ThrustScale

\* engine e is in Fault, put there by the random fault injection
InjectedFault(e) ==
    /\ engine_state[e] = ENGINE_STATE_FAULT
    /\ engines[e].fault_message = "Random fault injection"

\* a tick of the engine control thread with no sequence in progress
IdleTick == /\ ~IgnitionActive /\ ~ShutdownActive
            /\ ~IgnitionActive' /\ ~ShutdownActive'

\* C23 as stated: in the tick in which the time of the ignition sequence
\* reaches 4 s every engine is Running with thrust_pct = 60, and a Running
\* engine is still Running after every following tick.
C23_AllRunning ==
    [][/\ (IgnitionActive /\ ~IgnitionActive')
            => \A e \in Engines : RunningAtMinThrottle(e)'
       /\ IdleTick
            => \A e \in Engines :
                  RunningAtMinThrottle(e) => RunningAtMinThrottle(e)']_vars

\* C23: the ignition sequence ends in the tick in which its time reaches
\* 4 s, and at the end of that tick every engine is Running with
\* thrust_pct = 60 unless the random fault injection has put it into Fault;
\* after every following tick without a sequence a Running engine is still
\* Running at that thrust, unless the fault injection has put it into Fault.
C23_IgnitionCompletes ==
    [][/\ IgnitionActive
            => (~IgnitionActive' <=> ~SequenceTimeBelow(sequence_timer.ignition + 1, 4))
       /\ (IgnitionActive /\ ~IgnitionActive')
            => \A e \in Engines : RunningAtMinThrottle(e)' \/ InjectedFault(e)'
       /\ IdleTick
            => \A e \in Engines :
                  RunningAtMinThrottle(e)
                      => RunningAtMinThrottle(e)' \/ InjectedFault(e)']_vars

\* the first ignition has completed with all engines Running
C23_Witness ==
    /\ ~IgnitionActive /\ ~ShutdownActive
    /\ \A e \in Engines : /\ RunningAtMinThrottle(e)
                          /\ ~engines[e].fault_detected
                          /\ engines[e].ignition_enabled

\* C24: at the end of every tick an engine with thrust_pct > 0 is Running or
\* in Shutdown; an engine that is Offline, in PreStart, in Ignition or in
\* Fault has thrust_pct = 0.
C24_ThrustOnlyWhenRunning ==
    \A e \in Engines :
        engines[e].thrust_percentage > 0
            => engine_state[e] \in {ENGINE_STATE_RUNNING, ENGINE_STATE_SHUTDOWN}

\* C25: an engine in Fault stays in Fault.
C25_FaultSticky ==
    [][\A e \in Engines :
          engine_state[e] = ENGINE_STATE_FAULT
              => engine_state'[e] = ENGINE_STATE_FAULT]_vars

\* the shutdown sequence ends in this step
ShutdownEnds == ShutdownActive /\ ~ShutdownActive'

\* no engine's thrust increases in a tick of the shutdown sequence, and the
\* sequence ends in the tick in which its time reaches 2 s
ShutdownRamp ==
    /\ \A e \in Engines :
          engines'[e].thrust_percentage <= engines[e].thrust_percentage
    /\ ShutdownEnds <=> ~SequenceTimeBelow(sequence_timer.shutdown + 1,
                                           ENGINE_SHUTDOWN_TIME_S)

\* C26 as stated: during the shutdown sequence no thrust increases, and in
\* the tick in which its time reaches 2 s the sequence ends with every
\* engine Offline, thrust_pct = 0 and ignition disabled.
C26_AllOffline ==
    [][ShutdownActive
          => /\ ShutdownRamp
             /\ ShutdownEnds
                  => \A e \in Engines :
                        /\ engine_state'[e] = ENGINE_STATE_OFFLINE
                        /\ engines'[e].thrust_percentage = 0
                        /\ ~engines'[e].ignition_enabled]_vars

\* C26: during the shutdown sequence no thrust increases, and in the tick in
\* which its time reaches 2 s the sequence ends with every engine at
\* thrust_pct = 0 and ignition disabled, and Offline unless the random fault
\* injection of that tick has put it into Fault.
C26_ShutdownCompletes ==
    [][ShutdownActive
          => /\ ShutdownRamp
             /\ ShutdownEnds
                  => \A e \in Engines :
                        /\ \/ engine_state'[e] = ENGINE_STATE_OFFLINE
                           \/ InjectedFault(e)'
                        /\ engines'[e].thrust_percentage = 0
                        /\ ~engines'[e].ignition_enabled]_vars

\* engines that were ignited have been shut down
C26_Witness ==
    /\ ~IgnitionActive /\ ~ShutdownActive
    /\ \A e \in Engines : /\ engine_state[e] = ENGINE_STATE_OFFLINE
                          /\ engines[e].ignition_time = TicksPerSecond
                          /\ engines[e].thrust_percentage = 0

\* C27: at the end of every tick a Running engine has fuel_flow =
\* 200 x thrust_pct / 100 and ox_flow = 400 x thrust_pct / 100, and an engine
\* in any other state has both flows 0.
C27_FlowFollowsState ==
    \A e \in Engines :
        IF engine_state[e] = ENGINE_STATE_RUNNING
        THEN /\ engines[e].fuel_flow_rate
                  = (BaseFuelFlow * engines[e].thrust_percentage) \div 100
             /\ engines[e].oxidizer_flow_rate
                  = (BaseOxidizerFlow * engines[e].thrust_percentage) \div 100
        ELSE /\ engines[e].fuel_flow_rate = 0
             /\ engines[e].oxidizer_flow_rate = 0

----------------------------------------------------------------------------
(* Properties of the threads and their loops *)

\* C28: once the shutdown flag is set, a subsystem thread that goes through
\* its loop header returns, so that the joins of shutdown_system return.
C28_LoopsObserveShutdown ==
    [][\A s \in Subsystems :
          (g_shutdown_requested /\ thread_pc[s] = "header"
                                /\ thread_pc'[s] # "header")
              => thread_pc'[s] = "done"]_vars

\* wake time t(k+1) minus wake time t(k) of the last iteration
WakeGap == last_iteration.elapsed + last_iteration.slept

\* C29: consecutive wake times of a periodic loop are at least one period
\* apart, whatever the body took and also when the sleep was interrupted.
C29_WakeGap == last_iteration.woke => WakeGap >= PeriodUnits

\* C30: an iteration of a loop whose execution time exceeds the deadline of
\* 1.5 periods logs one warning tagged with the component of the loop.
C30_DeadlineMissWarned ==
    [][(last_iteration' # last_iteration
           /\ last_iteration'.elapsed * 2 > PeriodUnits * 3)
          => warn_count'[last_iteration'.component]
                = warn_count[last_iteration'.component] + 1]_vars

----------------------------------------------------------------------------
(* Properties of the simulator after an Abort command *)

\* C31: after an Abort command with no later Go or Throttle command the
\* throttle is 0 once 20 steps of the loop have passed, and also when the
\* loop has ended earlier than that: it reaches 0 within 2 s and stays 0.
C31_ThrottleZeroAfterAbort ==
    (abort_steps # NoAbort /\ (abort_steps >= 20 \/ spc = "stopped"))
        => g_throttle = 0

\* C37: when the loop of main has ended after an Abort command and the
\* command server is stopped, the vehicle is at rest: altitude 0 and
\* velocity 0.
C37_AtRestWhenStopped ==
    (spc = "stopped" /\ rpc = "cancelled") => (g_altitude = 0 /\ g_velocity = 0)

----------------------------------------------------------------------------
(* Properties of the operator console *)

\* the console has read one more line in this step
LineRead == console'.lines = console.lines + 1

\* the text of a line: what precedes its newline
LineText(raw) ==
    IF Len(raw) > 0 /\ raw[Len(raw)] = "\n" THEN SubSeq(raw, 1, Len(raw) - 1)
    ELSE raw

\* the message the command table gives for a valid command line, NoMessage
\* for any other line
TableMessage(line) ==
    IF line = KwStatus THEN [type |-> 1, value |-> 0]
    ELSE IF line = KwGo THEN [type |-> 2, value |-> 0]
    ELSE IF line = KwNogo THEN [type |-> 3, value |-> 0]
    ELSE IF line = KwAbort THEN [type |-> 4, value |-> 0]
    ELSE IF \E t \in ThrottleTexts : line = KwThrottle \o << " " >> \o t.text
    THEN [type |-> 5,
          value |-> (CHOOSE t \in ThrottleTexts :
                        line = KwThrottle \o << " " >> \o t.text).n]
    ELSE NoMessage

RECURSIVE DropTrailingSpace(_)
DropTrailingSpace(s) ==
    IF s # << >> /\ isspace(s[Len(s)])
    THEN DropTrailingSpace(SubSeq(s, 1, Len(s) - 1))
    ELSE s

\* a line without the white space around it
Trimmed(s) == SkipSpace(DropTrailingSpace(s))

\* <N>: a decimal integer
IsNumber(s) ==
    LET d == IF s # << >> /\ Head(s) = "-" THEN Tail(s) ELSE s
    IN d # << >> /\ \A i \in 1..Len(d) : IsDigit(d[i])

\* status | go | nogo | abort | throttle <N> | quit | exit, trimmed
InGrammar(raw) ==
    LET t == Trimmed(raw)
    IN \/ t \in {KwStatus, KwGo, KwNogo, KwAbort, KwQuit, KwExit}
       \/ /\ Len(t) > 9
          /\ SubSeq(t, 1, 8) = KwThrottle
          /\ t[9] = " "
          /\ IsNumber(SkipSpace(SubSeq(t, 9, Len(t))))

\* C40: a line that is not in the grammar sends no message and changes no
\* state of the command service.
C40_InvalidLineSendsNothing ==
    [][(LineRead /\ ~InGrammar(console'.raw))
          => /\ console'.sent = console.sent
             /\ <<g_mission_go, g_throttle, g_abort_req>>'
                   = <<g_mission_go, g_throttle, g_abort_req>>]_vars

----------------------------------------------------------------------------
(* Properties of the logging system *)

\* C33: a call of sls_logging_cleanup after a successful sls_logging_init
\* does not block on the logging mutex, and when it has returned the
\* logging system is uninitialised and the log file is closed and on disk.
C33_CleanupReturns ==
    /\ logger.pc # "blocked"
    /\ (logger.last = "cleanup" /\ logger.on_disk)
          => (~logger.initialized /\ ~logger.file_open)

----------------------------------------------------------------------------
(* Properties of sls_clamp *)

\* C34: for min <= max, sls_clamp returns the value when it lies in
\* [min, max], min when the value is below min and max when it is above max,
\* so the result is always within [min, max].
C34_Clamp ==
    clamp_call.min_val <= clamp_call.max_val =>
        /\ (clamp_call.min_val <= clamp_call.value
               /\ clamp_call.value <= clamp_call.max_val)
              => clamp_call.result = clamp_call.value
        /\ clamp_call.value < clamp_call.min_val
              => clamp_call.result = clamp_call.min_val
        /\ clamp_call.value > clamp_call.max_val
              => clamp_call.result = clamp_call.max_val
        /\ clamp_call.min_val <= clamp_call.result
        /\ clamp_call.result <= clamp_call.max_val

\* a call with the value above a range of more than one point
C34_Witness ==
    /\ clamp_call.min_val < clamp_call.max_val
    /\ clamp_call.value > clamp_call.max_val
    /\ clamp_call.result = clamp_call.max_val

----------------------------------------------------------------------------
(* Properties of the telemetry ring under appends and reads *)

\* the stream offsets of the unread bytes, oldest first: what a reader gets
\* by draining the device
Unread ==
    [i \in 1..Available(r_head, r_tail) |-> ring_src[(r_tail + i - 1) % RBUF_SZ]]

\* the unread bytes are the last bytes appended, in append order
HoldsNewest ==
    LET avail == Available(r_head, r_tail)
    IN \A i \in 1..avail :
          /\ Unread[i] = Len(emitted) - avail + i
          /\ ring[(r_tail + i - 1) % RBUF_SZ] = emitted[Unread[i]]

\* C35: after every append and every read both heads are in 0..RBUF_SZ-1,
\* at most RBUF_SZ-1 bytes are unread, the unread bytes are the most
\* recently appended ones in append order up to the last byte appended, and
\* an append of L bytes makes available = min(available + L, RBUF_SZ-1).
C35_RingContents ==
    /\ [](/\ r_head \in Cells /\ r_tail \in Cells
          /\ Available(r_head, r_tail) <= RBUF_SZ - 1
          /\ HoldsNewest)
    /\ [][emitted' # emitted =>
             Available(r_head', r_tail') =
                Min(Available(r_head, r_tail) + (Len(emitted') - Len(emitted)),
                    RBUF_SZ - 1)]_vars

\* bytes were read, later appends overwrote unread bytes, and the ring is full
C35_Witness ==
    /\ delivered # <<>>
    /\ lost > 0
    /\ Available(r_head, r_tail) = RBUF_SZ - 1
    /\ Unread[1] > delivered[Len(delivered)] + 1

\* the bytes a reader will receive by reading on: the device keeps no
\* position per open, so they are the unread bytes of the ring for every
\* reader
WillReceive(reader) == Unread

\* C36: a successful read by one reader removes no byte from what another
\* reader will receive.
C36_ReadersIndependent ==
    [][(emitted' = emitted /\ rd'.status = "OK")
          => \A q \in Readers \ {last_reader'} :
                WillReceive(q)' = WillReceive(q)]_vars

\* C38: when the health check of a tick finds a limit violated on an engine,
\* the engine is in Fault at the end of the tick, also when it faulted before
\* and a sequence has since given it another state.
C38_ViolationFaults ==
    \A e \in Engines :
        health_found[e] # NoFinding => engine_state[e] = ENGINE_STATE_FAULT

\* C39: in a tick of the shutdown sequence an engine that is Running and has
\* never faulted does not enter Fault, whatever the sensor noise, unless the
\* fault injection of the tick hits it.
C39_ShutdownRaisesNoFault ==
    [][\A e \in Engines :
          (/\ ShutdownActive
           /\ engine_state[e] = ENGINE_STATE_RUNNING
           /\ ~engines[e].fault_detected
           /\ engines[e].thrust_percentage <= VEHICLE_MIN_THROTTLE * ThrustScale
           /\ health_found'[e] # "Random fault injection")
              => engine_state'[e] # ENGINE_STATE_FAULT]_vars

====
